---- MODULE Spec2Model ----
(***************************************************************************)
(* Hybrid retrieval, re-ranking, source aggregation and confidence scoring *)
(* of the RAG engine (src/src/retrieval.py, src/src/llm.py,                *)
(* src/src/utils/source_formatting.py).                                    *)
(*                                                                         *)
(* Chunks are shared objects: every retriever built over the same document *)
(* list writes its tags into the same metadata maps.  A missing metadata   *)
(* key is the value Absent (numbers) or "absent" (strings).  Texts are     *)
(* sequences of whitespace-separated tokens.  Scores are exact rationals   *)
(* in units of 1 / (10 * ScoreScale).                                      *)
(***************************************************************************)
EXTENDS Integers, Sequences, FiniteSets, TLC

\* ---------------------------------------------------------------- bounds
NumChunks == 3
MaxK == 2
ConfigK == 2
HistorySize == 1

Chunks == 1..NumChunks
Absent == -1
ScoreScale == 2520

Min(a, b) == IF a < b THEN a ELSE b
Max(a, b) == IF a > b THEN a ELSE b
Range(s) == {s[i] : i \in 1..Len(s)}
Take(s, n) == SubSeq(s, 1, Min(n, Len(s)))
LastN(s, n) == SubSeq(s, Max(1, Len(s) - n + 1), Len(s))

\* ------------------------------------------------------------ the corpus
\* What ingestion leaves in a chunk (src/src/ingest.py): the text, the raw
\* file path (absolute, so os.path.abspath leaves it as it is; written
\* short here), the 0-based page of the loader (Absent for unpaged files)
\* and page_number = page + 1.  Ingestion sets no document_id ("").
Corpus ==
    << [content |-> <<"rag", "index">>,     document_id |-> "", raw_file_path |-> "a.pdf", page |-> 0],
       [content |-> <<"storage">>,          document_id |-> "", raw_file_path |-> "a.pdf", page |-> 1],
       [content |-> <<"rag">>,              document_id |-> "", raw_file_path |-> "b.txt", page |-> Absent],
       [content |-> <<"index", "notes">>,   document_id |-> "", raw_file_path |-> "c.pdf", page |-> 4],
       [content |-> <<"storage", "notes">>, document_id |-> "", raw_file_path |-> "a.pdf", page |-> 2] >>

Content(c) == Corpus[c].content
PageNumberOf(c) == IF Corpus[c].page >= 0 THEN Corpus[c].page + 1 ELSE Corpus[c].page

Queries == {<<"What", "is", "rag">>, <<"storage">>}

\* conversation_history arguments of retrieve_with_context.
Histories ==
    {<< >>,
     << <<"User:", "notes">>, <<"Assistant:", "rag">>, <<"User:", "storage">>,
        <<"Assistant:", "index">> >>}

\* str.lower() on a token.
Lower(t) ==
    CASE t = "What" -> "what"
      [] t = "Is" -> "is"
      [] t = "User:" -> "user:"
      [] t = "Assistant:" -> "assistant:"
      [] OTHER -> t

LowerAll(text) == [i \in 1..Len(text) |-> Lower(text[i])]

\* t in w, for a token t and a token w of a text (Python substring test).
SubstringOf(t, w) == t = w \/ <<t, w>> \in {<<"rag", "storage">>, <<"note", "notes">>}

VARIABLES
    meta,            \* chunk -> retrieval metadata written by this core
    retriever,       \* retriever object -> [cls, bm25, k]
    query_history,   \* AdvancedRetriever.query_history
    result,          \* list returned by the last retrieval call
    call,            \* what the last retrieval call did
    sources,         \* _extract_source_info(result) of the query in progress
    extracted,       \* whether that call has been made
    answer,          \* the answer text last scored
    num_documents,   \* len(documents) of that scoring
    confidence,      \* _calculate_confidence_score(answer, documents)
    engine,          \* EnhancedRAGChain: what its retriever attributes hold
    conversation_history, \* EnhancedRAGChain.conversation_history
    qcall,           \* what the last EnhancedRAGChain.query call did
    citation,        \* replace_bracket_citations: its text and its outputs
    selection,       \* select_template_by_query_type: inputs and output
    rerank,          \* _rerank_documents: its inputs and its outputs
    context_calls,   \* original queries of retrieve_with_context, in call order
    context,         \* create_context_string: its inputs and its output
    recording,       \* _record_interaction: where each thread is, and its slice
    service,         \* RAGService: chain, lock, chunk cache, callers
    queue,           \* AsyncTaskQueue: the tasks created, the ids tracked
    ingestion        \* IngestionService: each job record and its run

retrievalVars == <<meta, retriever, query_history, result, call, sources, extracted>>
confidenceVars == <<answer, num_documents, confidence>>
engineVars == <<engine, conversation_history, qcall>>
pureVars == <<citation, selection>>
componentVars == <<rerank, context_calls, context, recording, service, queue, ingestion>>
vars == <<meta, retriever, query_history, result, call, sources, extracted,
          answer, num_documents, confidence, engine, conversation_history,
          qcall, citation, selection,
          rerank,
          context_calls,
          context,
          recording,
          service,
          queue,
          ingestion>>

Retrievers == {"retriever", "advanced_retriever"}

NoMeta ==
    [retrieval_rank |-> Absent, retrieval_method |-> "absent",
     bm25_score |-> Absent, relevance_score |-> Absent]

\* ------------------------------------------------- HybridRetriever.__init__
\* _init_bm25_retriever: primary builder, fallback builder, else None.
InitBm25Retriever(primaryFails, fallbackFails) ==
    IF ~primaryFails THEN "BM25Retriever"
    ELSE IF ~fallbackFails THEN "BM25FallbackRetriever"
    ELSE "None"

HybridRetrieverInit(bm25) ==
    [cls  |-> IF bm25 # "None" THEN "EnsembleRetriever" ELSE "VectorStoreRetriever",
     bm25 |-> bm25,
     k    |-> ConfigK,
     history_size |-> HistorySize]

GetRetrievalStats(r) ==
    LET is_ensemble == r.cls = "EnsembleRetriever" IN
    [is_ensemble |-> is_ensemble,
     has_bm25    |-> is_ensemble /\ r.bm25 \in {"BM25Retriever", "BM25FallbackRetriever"}]

\* ------------------------------------ query rewriting and expansion
StopPhrases ==
    << <<"what", "is">>, <<"who", "is">>, <<"when", "did">>,
       <<"where", "is">>, <<"how", "does">>, <<"why", "did">> >>

\* query_lower.startswith(phrase) is a test on characters: the second
\* token only has to begin with the phrase's second word.
CharPrefixes == {<<"is", "isotope", "otope">>}
BeginsWith(w, p) == Lower(w) = p \/ \E x \in CharPrefixes : x[1] = p /\ x[2] = Lower(w)
AfterPrefix(w, p) ==
    IF Lower(w) = p THEN << >>
    ELSE << (CHOOSE x \in CharPrefixes : x[1] = p /\ x[2] = Lower(w))[3] >>

StartsWithPhrase(query, phrase) ==
    /\ Len(query) >= 2
    /\ Lower(query[1]) = phrase[1]
    /\ BeginsWith(query[2], phrase[2])

RewriteQuery(query) ==
    IF \E i \in 1..Len(StopPhrases) : StartsWithPhrase(query, StopPhrases[i])
    THEN LET i == CHOOSE i \in 1..Len(StopPhrases) :
                     /\ StartsWithPhrase(query, StopPhrases[i])
                     /\ \A j \in 1..(i - 1) : ~StartsWithPhrase(query, StopPhrases[j])
         IN AfterPrefix(query[2], StopPhrases[i][2]) \o SubSeq(query, 3, Len(query))
    ELSE query

ContextSize == 3

RECURSIVE Flatten(_)
Flatten(strings) ==
    IF strings = << >> THEN << >> ELSE Head(strings) \o Flatten(Tail(strings))

\* f"{query} {' '.join(conversation_history[-context_size:])}"
ExpandQueryWithContext(query, history_lines) ==
    IF history_lines = << >> THEN query
    ELSE query \o Flatten(LastN(history_lines, ContextSize))

ExpandedQuery(query, history_lines) ==
    IF history_lines # << >>
    THEN ExpandQueryWithContext(RewriteQuery(query), history_lines)
    ELSE RewriteQuery(query)

\* Every query string the indexes are asked in this model; the answers of
\* the indexes are tabulated over them.
IndexQueries ==
    Queries \cup {ExpandedQuery(q, h) : q \in Queries, h \in Histories}

\* ----------------------------------------------------- the two indexes
\* The list of the chunks of S in the order given by pos (a bijection
\* from S onto 1..|S|).
ListBy(S, pos(_)) ==
    [p \in 1..Cardinality(S) |-> CHOOSE c \in S : pos(c) = p]

\* Keyword score of a chunk: query tokens that are tokens of the chunk
\* (query.split() against doc.page_content.split(), case kept).
KeywordScore(query, c) == Cardinality(Range(query) \cap Range(Content(c)))

\* sorted(range(len(scores)), key=scores, reverse=True): descending, ties
\* in corpus order.
KeywordPos(query, c) ==
    1 + Cardinality({d \in Chunks :
            \/ KeywordScore(query, d) > KeywordScore(query, c)
            \/ KeywordScore(query, d) = KeywordScore(query, c) /\ d < c})

KeywordSearch(query, k) ==
    LET all == ListBy(Chunks, LAMBDA c : KeywordPos(query, c)) IN Take(all, k)

\* BM25FallbackRetriever writes the score of every hit into its metadata.
WriteBm25Scores(m, query, hits) ==
    [c \in Chunks |->
        IF c \in Range(hits)
        THEN [m[c] EXCEPT !.bm25_score = KeywordScore(query, c)]
        ELSE m[c]]

\* The vector index: similarity stands for embedding closeness; here the
\* number of lowercased query tokens occurring inside the chunk text, ties
\* to the later chunk.
VectorScore(query, c) ==
    Cardinality({t \in Range(LowerAll(query)) :
                    \E w \in Range(LowerAll(Content(c))) : SubstringOf(t, w)})

VectorPos(query, c) ==
    1 + Cardinality({d \in Chunks :
            \/ VectorScore(query, d) > VectorScore(query, c)
            \/ VectorScore(query, d) = VectorScore(query, c) /\ d > c})

VectorSearch(query, k) ==
    LET all == ListBy(Chunks, LAMBDA c : VectorPos(query, c)) IN Take(all, k)

\* EnsembleRetriever: weighted reciprocal rank fusion of the two lists,
\* score = sum of weight / (60 + rank), hits deduplicated, sorted by score
\* descending, ties in order of first appearance (vector list first).
RrfOffset == 60
SemanticWeight == 7
KeywordWeight == 3

RECURSIVE RrfDenominator(_)
RrfDenominator(n) == IF n = 0 THEN 1 ELSE (RrfOffset + n) * RrfDenominator(n - 1)

IndexIn(list, c) == CHOOSE i \in 1..Len(list) : list[i] = c

RrfScore(vec, kw, c) ==
    LET L == RrfDenominator(Max(Len(vec), Len(kw))) IN
    (IF c \in Range(vec) THEN (SemanticWeight * L) \div (RrfOffset + IndexIn(vec, c)) ELSE 0)
    + (IF c \in Range(kw) THEN (KeywordWeight * L) \div (RrfOffset + IndexIn(kw, c)) ELSE 0)

FirstSeen(vec, kw, c) ==
    IF c \in Range(vec) THEN IndexIn(vec, c) ELSE Len(vec) + IndexIn(kw, c)

Fuse(vec, kw) ==
    LET U == Range(vec) \cup Range(kw)
        pos(c) == 1 + Cardinality({d \in U :
                    \/ RrfScore(vec, kw, d) > RrfScore(vec, kw, c)
                    \/ /\ RrfScore(vec, kw, d) = RrfScore(vec, kw, c)
                       /\ FirstSeen(vec, kw, d) < FirstSeen(vec, kw, c)})
    IN ListBy(U, pos)

VectorIndex == [q \in IndexQueries |-> VectorSearch(q, ConfigK)]
KeywordIndex == [q \in IndexQueries |-> KeywordSearch(q, ConfigK)]
FusedIndex == [q \in IndexQueries |-> Fuse(VectorIndex[q], KeywordIndex[q])]

\* self.retriever.get_relevant_documents(query): the fused list in
\* ensemble mode, the vector list otherwise; the fallback keyword
\* retriever scores its hits on the way.
PrimaryDocs(r, query) ==
    IF r.cls = "EnsembleRetriever"
    THEN FusedIndex[query]
    ELSE VectorIndex[query]

PrimaryMeta(m, r, query) ==
    IF r.cls = "EnsembleRetriever" /\ r.bm25 = "BM25FallbackRetriever"
    THEN WriteBm25Scores(m, query, KeywordIndex[query])
    ELSE m

\* ------------------------------------------------ HybridRetriever.retrieve
LastIndex(documents, c) ==
    CHOOSE i \in 1..Len(documents) :
        documents[i] = c /\ \A j \in 1..Len(documents) : documents[j] = c => j <= i

AddRetrievalMetadata(m, r, documents) ==
    LET method == IF r.cls = "EnsembleRetriever" THEN "hybrid" ELSE "vector_only" IN
    [c \in Chunks |->
        IF c \in Range(documents)
        THEN [m[c] EXCEPT !.retrieval_rank = LastIndex(documents, c),
                          !.retrieval_method = method]
        ELSE m[c]]

\* (variant: the exception of the vector call is not caught)
VectorOnlyRetrievalUncaught(r, query, k, vecFails) ==
    IF vecFails
    THEN [docs |-> << >>, raised |-> TRUE]
    ELSE [docs |-> Take(VectorIndex[query], k), raised |-> FALSE]

\* _vector_only_retrieval: one vector call, its exception swallowed.
VectorOnlyRetrieval(r, query, k, vecFails) ==
    IF vecFails
    THEN [docs |-> << >>, raised |-> FALSE]
    ELSE [docs |-> Take(VectorIndex[query], k), raised |-> FALSE]

\* retrieve(query, k); k = 0 stands for None (and for 0: "k or self.k").
HybridRetrieve(m, r, query, k, primFails, vecFails) ==
    LET k_to_use == IF k = 0 THEN r.k ELSE k IN
    IF ~primFails
    THEN LET results == Take(PrimaryDocs(r, query), k_to_use)
         IN [docs |-> results,
             meta |-> AddRetrievalMetadata(PrimaryMeta(m, r, query), r, results),
             path |-> "primary", raised |-> FALSE, written |-> Range(results)]
    ELSE LET fb == VectorOnlyRetrieval(r, query, k_to_use, vecFails)
         IN [docs |-> fb.docs, meta |-> m, path |-> "fallback",
             raised |-> fb.raised, written |-> {}]

\* ------------------------------------------------------ AdvancedRetriever
\* query_history.append(query); pop(0) when over the configured size.
\* (variant: the newest query is dropped instead of the oldest)
TrackQueryDropsNewest(history, query, history_size) ==
    LET h == Append(history, query) IN
    IF Len(h) > history_size THEN SubSeq(h, 1, Len(h) - 1) ELSE h

TrackQuery(history, query, history_size) ==
    LET h == Append(history, query) IN
    IF Len(h) > history_size THEN Tail(h) ELSE h

\* 0.6 * jaccard + 0.4 * term_freq ...
LexicalScore(query, c) ==
    LET query_terms == Range(LowerAll(query))
        doc_terms == Range(LowerAll(Content(c)))
        intersection == Cardinality(query_terms \cap doc_terms)
        union == Cardinality(query_terms \cup doc_terms)
        jaccard == IF union > 0 THEN (6 * intersection * ScoreScale) \div union ELSE 0
        term_freq == Cardinality({t \in query_terms :
                        \E w \in doc_terms : SubstringOf(t, w)})
        tf == IF query_terms # {} THEN (4 * term_freq * ScoreScale) \div Cardinality(query_terms)
              ELSE 0
    IN jaccard + tf

LexicalScores == [q \in IndexQueries |-> [c \in Chunks |-> LexicalScore(q, c)]]

\* ... + 0.2 * metadata.get('bm25_score', 0.0).
CombinedScore(query, c, bm25) ==
    LexicalScores[query][c] + 2 * ScoreScale * (IF bm25 = Absent THEN 0 ELSE bm25)

\* list.sort(key=score, reverse=True): descending, equal scores keep
\* their order.
SortedByScore(documents, score(_)) ==
    LET n == Len(documents)
        pos(i) == 1 + Cardinality({j \in 1..n :
                    \/ score(documents[j]) > score(documents[i])
                    \/ score(documents[j]) = score(documents[i]) /\ j < i})
    IN [p \in 1..n |-> documents[CHOOSE i \in 1..n : pos(i) = p]]

\* (variant: the scores are written but the list is left in retrieval order)
RerankDocumentsUnsorted(m, query, documents) ==
    LET score(c) == CombinedScore(query, c, m[c].bm25_score)
    IN [docs |-> documents,
        meta |-> [c \in Chunks |->
                    IF c \in Range(documents)
                    THEN [m[c] EXCEPT !.relevance_score = score(c),
                                      !.retrieval_rank = LastIndex(documents, c)]
                    ELSE m[c]]]

\* (variant: equal scores come out in the reverse of their input order)
RerankDocumentsTiesReversed(m, query, documents) ==
    LET score(c) == CombinedScore(query, c, m[c].bm25_score)
        n == Len(documents)
        pos(i) == 1 + Cardinality({j \in 1..n :
                    \/ score(documents[j]) > score(documents[i])
                    \/ score(documents[j]) = score(documents[i]) /\ j > i})
        reranked == [p \in 1..n |-> documents[CHOOSE i \in 1..n : pos(i) = p]]
    IN [docs |-> reranked,
        meta |-> [c \in Chunks |->
                    IF c \in Range(reranked)
                    THEN [m[c] EXCEPT !.relevance_score = score(c),
                                      !.retrieval_rank = LastIndex(reranked, c)]
                    ELSE m[c]]]

RerankDocuments(m, query, documents) ==
    LET score(c) == CombinedScore(query, c, m[c].bm25_score)
        reranked == SortedByScore(documents, score)
    IN [docs |-> reranked,
        meta |-> [c \in Chunks |->
                    IF c \in Range(reranked)
                    THEN [m[c] EXCEPT !.relevance_score = score(c),
                                      !.retrieval_rank = LastIndex(reranked, c)]
                    ELSE m[c]]]

\* AdvancedRetriever.retrieve: over-fetch 2k, re-rank, cut to k.
AdvancedRetrieve(m, r, query, k, primFails, vecFails) ==
    LET k_to_use == IF k = 0 THEN r.k ELSE k
        retrieval_k == k_to_use * 2
        fetched == HybridRetrieve(m, r, query, retrieval_k, primFails, vecFails)
        reranked == RerankDocuments(fetched.meta, query, fetched.docs)
    IN [docs |-> Take(reranked.docs, k_to_use), meta |-> reranked.meta,
        candidates |-> fetched.docs, fetch_k |-> retrieval_k,
        path |-> fetched.path, raised |-> fetched.raised,
        written |-> fetched.written]

\* What a call left behind for the properties to look at: the operation,
\* the retriever object, the effective k, the query handed to the indexes,
\* the path taken, whether an exception escaped, the chunks whose tags the
\* call wrote, and what the indexes answered.
NoCall ==
    [op |-> "none", obj |-> "retriever", k |-> 0, query |-> << >>,
     path |-> "none", raised |-> FALSE, written |-> {},
     prim_failed |-> FALSE, vec_failed |-> FALSE,
     original |-> << >>, history |-> << >>, fetch_k |-> 0, candidates |-> << >>]

\* retriever.retrieve(query, k) on the HybridRetriever.
Retrieve(query, k, primFails, vecFails) ==
    \E r \in {retriever["retriever"]} :
    \E out \in {HybridRetrieve(meta, r, query, k, primFails, vecFails)} :
       /\ meta' = out.meta
       /\ result' = out.docs
       /\ call' = [op |-> "retrieve", obj |-> "retriever",
                   k |-> IF k = 0 THEN r.k ELSE k, query |-> query,
                   path |-> out.path, raised |-> out.raised,
                   written |-> out.written,
                   prim_failed |-> primFails, vec_failed |-> primFails /\ vecFails,
                   original |-> query, history |-> << >>,
                   fetch_k |-> IF k = 0 THEN r.k ELSE k, candidates |-> out.docs]
       /\ sources' = << >>
       /\ extracted' = FALSE
       /\ UNCHANGED <<retriever, query_history>>
       /\ UNCHANGED <<confidenceVars, engineVars, pureVars, componentVars>>

\* advanced_retriever.retrieve_with_context(query, conversation_history, k).
RetrieveWithContext(query, history_lines, k, primFails, vecFails) ==
    \E r \in {retriever["advanced_retriever"]} :
    \E expanded \in {ExpandedQuery(query, history_lines)} :
    \E out \in {AdvancedRetrieve(meta, r, expanded, k, primFails, vecFails)} :
       /\ query_history' = TrackQuery(query_history, query, r.history_size)
       /\ meta' = out.meta
       /\ result' = out.docs
       /\ call' = [op |-> "retrieve_with_context", obj |-> "advanced_retriever",
                   k |-> IF k = 0 THEN r.k ELSE k, query |-> expanded,
                   path |-> out.path, raised |-> out.raised,
                   written |-> out.written,
                   prim_failed |-> primFails, vec_failed |-> primFails /\ vecFails,
                   original |-> query, history |-> history_lines,
                   fetch_k |-> out.fetch_k, candidates |-> out.candidates]
       /\ sources' = << >>
       /\ extracted' = FALSE
       /\ UNCHANGED retriever
       /\ UNCHANGED <<confidenceVars, engineVars, pureVars>>

RetrieveOk == \E query \in Queries, k \in 0..MaxK : Retrieve(query, k, FALSE, FALSE)
RetrieveFallback == \E query \in Queries, k \in 0..MaxK : Retrieve(query, k, TRUE, FALSE)
RetrieveBothFail == \E query \in Queries, k \in 0..MaxK : Retrieve(query, k, TRUE, TRUE)

ContextOk ==
    \E query \in Queries, h \in Histories, k \in 0..MaxK :
        /\ RetrieveWithContext(query, h, k, FALSE, FALSE)
        /\ UNCHANGED componentVars
ContextFallback ==
    \E query \in Queries, h \in Histories, k \in 0..MaxK, vecFails \in BOOLEAN :
        /\ RetrieveWithContext(query, h, k, TRUE, vecFails)
        /\ UNCHANGED componentVars

\* --------------------------------- EnhancedRAGChain._extract_source_info
SuperscriptMap ==
    [d \in 0..9 |->
        <<"sup0", "sup1", "sup2", "sup3", "sup4", "sup5", "sup6", "sup7",
          "sup8", "sup9">>[d + 1]]

\* "".join(SUPERSCRIPT_MAP.get(ch, ch) for ch in str(number))
RECURSIVE FormatSuperscript(_)
FormatSuperscript(number) ==
    IF number < 10 THEN <<SuperscriptMap[number]>>
    ELSE Append(FormatSuperscript(number \div 10), SuperscriptMap[number % 10])

\* (variant: every chunk is its own group)
DocumentKeyPerChunk(c) == ToString(c)

\* document_id or raw_file_path or ... or str(id(doc))
DocumentKey(c) ==
    IF Corpus[c].document_id # "" THEN Corpus[c].document_id
    ELSE IF Corpus[c].raw_file_path # "" THEN Corpus[c].raw_file_path
    ELSE ToString(c)

\* Keys of the grouped dict in insertion order.
GroupKeys(documents) ==
    LET idx == {i \in 1..Len(documents) :
                    \A j \in 1..(i - 1) : DocumentKey(documents[j]) # DocumentKey(documents[i])}
        pos(i) == Cardinality({j \in idx : j <= i})
    IN [p \in 1..Cardinality(idx) |-> DocumentKey(documents[CHOOSE i \in idx : pos(i) = p])]

GroupChunks(documents, key) == SelectSeq(documents, LAMBDA c : DocumentKey(c) = key)

\* page_number, page + 1 (both when they are integers) of every chunk.
GroupPageNumbers(chunks) ==
    {PageNumberOf(chunks[i]) : i \in {j \in 1..Len(chunks) : PageNumberOf(chunks[j]) # Absent}}
    \cup {Corpus[chunks[i]].page + 1 : i \in {j \in 1..Len(chunks) : Corpus[chunks[j]].page # Absent}}

SortedPages(S) ==
    [p \in 1..Cardinality(S) |-> CHOOSE n \in S : Cardinality({x \in S : x <= n}) = p]

NoLabel == [kind |-> "none", pages |-> << >>]

\* max(chunks, key=lambda chunk: metadata.get("bm25_score", 0.0)): the key
\* reads the group's metadata, so it is the same for every chunk and max
\* returns the first chunk.
BestChunk(m, chunks) ==
    LET key(i) == IF m[chunks[1]].bm25_score = Absent THEN 0 ELSE m[chunks[1]].bm25_score
    IN chunks[CHOOSE i \in 1..Len(chunks) :
                /\ \A j \in 1..Len(chunks) : key(j) <= key(i)
                /\ \A j \in 1..(i - 1) : key(j) < key(i)]

\* normalize_source_payload(payload, index): the fields this model follows.
\* metadata is the metadata of the group's first chunk.  Neither the
\* payload nor the normalized entry has a chunk_count key (Absent).
NormalizeSourcePayload(payload, index) ==
    LET first == payload.chunks[1]
        page_number == IF PageNumberOf(first) # Absent THEN PageNumberOf(first)
                       ELSE IF Corpus[first].page # Absent THEN Corpus[first].page + 1
                       ELSE Absent
    IN [id |-> payload.id,
        citation |-> FormatSuperscript(payload.id),
        raw_file_path |-> payload.raw_file_path,
        content |-> payload.content,
        page_number |-> page_number,
        page_label |-> IF page_number # Absent
                       THEN [kind |-> "Page", pages |-> <<page_number>>]
                       ELSE NoLabel,
        page_numbers |-> payload.page_numbers,
        relevance_score |-> payload.relevance_score,
        bm25_score |-> payload.bm25_score,
        retrieval_rank |-> payload.retrieval_rank,
        chunk_count |-> Absent,
        chunks |-> payload.chunks]

\* (variant: sorted, but the ids of the first pass are kept)
SortWithoutNumbering(entries) ==
    LET n == Len(entries)
        key(i) == IF entries[i].relevance_score = Absent THEN 0
                  ELSE entries[i].relevance_score
        pos(i) == 1 + Cardinality({j \in 1..n :
                    key(j) > key(i) \/ (key(j) = key(i) /\ j < i)})
    IN [p \in 1..n |-> entries[CHOOSE i \in 1..n : pos(i) = p]]

\* sources.sort(key=relevance_score or 0.0, reverse=True); then id = idx
\* and citation = citation or display_name.
SortAndNumber(entries) ==
    LET n == Len(entries)
        key(i) == IF entries[i].relevance_score = Absent THEN 0
                  ELSE entries[i].relevance_score
        pos(i) == 1 + Cardinality({j \in 1..n :
                    key(j) > key(i) \/ (key(j) = key(i) /\ j < i)})
    IN [p \in 1..n |->
            [entries[CHOOSE i \in 1..n : pos(i) = p] EXCEPT !.id = p]]

ExtractSourceInfo(m, documents) ==
    LET keys == GroupKeys(documents)
        payload(index) ==
            LET chunks == GroupChunks(documents, keys[index])
                first == chunks[1]
            IN [id |-> index,
                content |-> BestChunk(m, chunks),
                raw_file_path |-> Corpus[first].raw_file_path,
                relevance_score |-> m[first].relevance_score,
                bm25_score |-> m[first].bm25_score,
                retrieval_rank |-> m[first].retrieval_rank,
                page_numbers |-> SortedPages(GroupPageNumbers(chunks)),
                chunks |-> chunks]
    IN SortAndNumber([index \in 1..Len(keys) |->
                        NormalizeSourcePayload(payload(index), index)])

\* sources = self._extract_source_info(documents) on the retrieved list.
ExtractSources ==
    /\ call.op # "none"
    /\ ~extracted
    /\ sources' = ExtractSourceInfo(meta, result)
    /\ extracted' = TRUE
    /\ UNCHANGED <<meta, retriever, query_history, result, call>>
    /\ UNCHANGED <<confidenceVars, engineVars, pureVars, componentVars>>

\* ---------------------------- EnhancedRAGChain._calculate_confidence_score
\* An answer is a sequence of words separated by single blanks.  Scores are
\* in units of 1/2500, in which every term of the formula is an integer.
MaxAnswerWords == 3
MaxDocuments == 6

Words ==
    {"7", "2024", "$5", "50%", "Marie", "Curie", "maybe", "Perhaps",
     "unclear", "not", "sure", "lorem60", "lorem500"}

\* len(word); lorem60 and lorem500 are runs of 60 and 500 lowercase letters.
WordLen(w) ==
    CASE w = "7" -> 1
      [] w \in {"$5", "be"} -> 2
      [] w \in {"50%", "not"} -> 3
      [] w \in {"2024", "sure"} -> 4
      [] w \in {"Marie", "Curie", "maybe"} -> 5
      [] w \in {"Perhaps", "unclear"} -> 7
      [] w = "lorem60" -> 60
      [] w = "lorem500" -> 500
      [] OTHER -> 1

RECURSIVE SumLen(_)
SumLen(text) == IF text = << >> THEN 0 ELSE WordLen(Head(text)) + SumLen(Tail(text))

TextLen(text) == IF text = << >> THEN 0 ELSE SumLen(text) + (Len(text) - 1)

Adjacent(text, P(_, _)) == \E i \in 1..(Len(text) - 1) : P(text[i], text[i + 1])
Capitalized(w) == w \in {"Marie", "Curie", "Perhaps"}

\* re.search(pattern, answer) for the five specificity patterns, in order:
\* \d+, \d{4}, [A-Z][a-z]+ [A-Z][a-z]+, \$\d+, \d+%.
SpecificityMatches(text) ==
    LET has(S) == \E i \in 1..Len(text) : text[i] \in S IN
    (IF has({"7", "2024", "$5", "50%"}) THEN 1 ELSE 0)
    + (IF has({"2024"}) THEN 1 ELSE 0)
    + (IF Adjacent(text, LAMBDA a, b : Capitalized(a) /\ Capitalized(b)) THEN 1 ELSE 0)
    + (IF has({"$5"}) THEN 1 ELSE 0)
    + (IF has({"50%"}) THEN 1 ELSE 0)

\* phrase in answer.lower() for the hedging phrases that can occur in an
\* answer over Words: "not sure", "unclear", "perhaps", "maybe".
UncertaintyMatches(text) ==
    LET has(S) == \E i \in 1..Len(text) : text[i] \in S IN
    (IF Adjacent(text, LAMBDA a, b : a = "not" /\ b = "sure") THEN 1 ELSE 0)
    + (IF has({"unclear"}) THEN 1 ELSE 0)
    + (IF has({"Perhaps"}) THEN 1 ELSE 0)
    + (IF has({"maybe"}) THEN 1 ELSE 0)

ConfidenceOne == 2500

\* The sum before the final clamp.
RawConfidence(text, n) ==
    LET length == TextLen(text)
        length_score == IF length > 50 THEN Min(length, 500) ELSE 10 * length
        specificity == Min(250 * SpecificityMatches(text), 750)
        doc_support == 100 * Min(n, 5)
        uncertainty_penalty == Min(250 * UncertaintyMatches(text), 750)
    IN 1250 + length_score + specificity + doc_support - uncertainty_penalty

\* (variant: the final clamp is missing)
CalculateConfidenceScoreUnclamped(text, n) == RawConfidence(text, n)

\* max(0.0, min(1.0, confidence))
CalculateConfidenceScore(text, n) == Max(0, Min(ConfidenceOne, RawConfidence(text, n)))

Answers == UNION {[1..n -> Words] : n \in 0..MaxAnswerWords}

\* confidence_score = self._calculate_confidence_score(answer, documents)
\* for the answer text and the documents at hand.
ScoreAnswer ==
    /\ confidence = Absent
    /\ confidence' = CalculateConfidenceScore(answer, num_documents)
    /\ UNCHANGED <<answer, num_documents>>
    /\ UNCHANGED <<retrievalVars, engineVars, pureVars, componentVars>>

\* ------------------------------------------------------ character strings
\* Where single characters matter a string is the sequence of its
\* characters; the superscript glyph of the digit d is the character "supd".
UpperLetters ==
    <<"A", "B", "C", "D", "E", "F", "G", "H", "I", "J", "K", "L", "M",
      "N", "O", "P", "Q", "R", "S", "T", "U", "V", "W", "X", "Y", "Z">>
LowerLetters ==
    <<"a", "b", "c", "d", "e", "f", "g", "h", "i", "j", "k", "l", "m",
      "n", "o", "p", "q", "r", "s", "t", "u", "v", "w", "x", "y", "z">>

\* str.lower()
LowerChar(ch) ==
    IF \E i \in 1..Len(UpperLetters) : UpperLetters[i] = ch
    THEN LowerLetters[CHOOSE i \in 1..Len(UpperLetters) : UpperLetters[i] = ch]
    ELSE ch
LowerStr(s) == [i \in 1..Len(s) |-> LowerChar(s[i])]

\* t in s
Contains(s, t) ==
    \E i \in 0..(Len(s) - Len(t)) : SubSeq(s, i + 1, i + Len(t)) = t

\* \d of the regular expressions, on the characters of this model.
Digits == {"0", "1", "2", "3", "4", "5", "6", "7", "8", "9"}
IsDigit(s, i) == i <= Len(s) /\ s[i] \in Digits

\* SUPERSCRIPT_MAP.get(ch, ch)
SuperscriptOf(ch) ==
    IF ch \in Digits THEN SuperscriptMap[CHOOSE d \in 0..9 : ToString(d) = ch] ELSE ch

\* format_superscript(match.group(1)): the digits s[i..i+n-1], one by one.
FormatSuperscriptStr(s, i, n) == [j \in 1..n |-> SuperscriptOf(s[i + j - 1])]

\* Length of the longest run of digits starting at s[i] (\d+ is greedy).
RECURSIVE DigitRun(_, _)
DigitRun(s, i) == IF IsDigit(s, i) THEN 1 + DigitRun(s, i + 1) ELSE 0

\* -------------------------------------------- replace_bracket_citations
\* re.sub(r"\[(\d+)\]", _replace, text) from position i on: leftmost
\* matches, not overlapping.
RECURSIVE SubBracket(_, _)
SubBracket(s, i) ==
    IF i > Len(s) THEN << >>
    ELSE LET n == DigitRun(s, i + 1) IN
         IF s[i] = "[" /\ n >= 1 /\ i + n + 1 <= Len(s) /\ s[i + n + 1] = "]"
         THEN FormatSuperscriptStr(s, i + 1, n) \o SubBracket(s, i + n + 2)
         ELSE <<s[i]>> \o SubBracket(s, i + 1)

\* re.sub(r"\^\{?(\d+)\}?", _replace, updated): the braces are optional
\* one by one.
RECURSIVE SubCaret(_, _)
SubCaret(s, i) ==
    IF i > Len(s) THEN << >>
    ELSE LET open == IF i + 1 <= Len(s) /\ s[i + 1] = "{" /\ IsDigit(s, i + 2)
                     THEN 1 ELSE 0
             n == DigitRun(s, i + 1 + open)
             close == IF i + open + n + 1 <= Len(s) /\ s[i + open + n + 1] = "}"
                      THEN 1 ELSE 0
         IN IF s[i] = "^" /\ n >= 1
            THEN FormatSuperscriptStr(s, i + 1 + open, n)
                     \o SubCaret(s, i + 1 + open + n + close)
            ELSE <<s[i]>> \o SubCaret(s, i + 1)

\* (variant: the second substitution is left out)
ReplaceBracketCitationsBracketsOnly(text) == SubBracket(text, 1)

ReplaceBracketCitations(text) ==
    IF text = << >> THEN text ELSE SubCaret(SubBracket(text, 1), 1)

\* The texts the function is applied to: every string of at most
\* MaxTextLen characters over TextAlphabet.
MaxTextLen == 4
TextAlphabet == {"[", "]", "^", "{", "}", "1", "2", "a"}
Texts == UNION {[1..n -> TextAlphabet] : n \in 0..MaxTextLen}

NoCitation == [text |-> << >>, updated |-> << >>, again |-> << >>, done |-> FALSE]

\* updated = replace_bracket_citations(text), and the function applied to
\* its own output.
FormatCitations ==
    /\ ~citation.done
    /\ citation' = [text |-> citation.text,
                    updated |-> ReplaceBracketCitations(citation.text),
                    again |-> ReplaceBracketCitations(ReplaceBracketCitations(citation.text)),
                    done |-> TRUE]
    /\ UNCHANGED <<retrievalVars, confidenceVars, engineVars, selection, componentVars>>

\* -------------------------- PromptManager.select_template_by_query_type
\* Technical queries
TechnicalKeywords ==
    {<<"c", "o", "d", "e">>, <<"f", "u", "n", "c", "t", "i", "o", "n">>,
     <<"c", "l", "a", "s", "s">>, <<"m", "e", "t", "h", "o", "d">>,
     <<"a", "p", "i">>,
     <<"i", "m", "p", "l", "e", "m", "e", "n", "t", "a", "t", "i", "o", "n">>,
     <<"a", "l", "g", "o", "r", "i", "t", "h", "m">>,
     <<"s", "y", "n", "t", "a", "x">>, <<"d", "e", "b", "u", "g">>,
     <<"e", "r", "r", "o", "r">>,
     <<"e", "x", "c", "e", "p", "t", "i", "o", "n">>}

\* Analysis queries
AnalysisKeywords ==
    {<<"a", "n", "a", "l", "y", "z", "e">>,
     <<"c", "o", "m", "p", "a", "r", "e">>,
     <<"e", "v", "a", "l", "u", "a", "t", "e">>,
     <<"a", "s", "s", "e", "s", "s">>,
     <<"i", "m", "p", "l", "i", "c", "a", "t", "i", "o", "n", "s">>,
     <<"i", "m", "p", "a", "c", "t">>,
     <<"c", "o", "n", "s", "e", "q", "u", "e", "n", "c", "e", "s">>,
     <<"t", "r", "e", "n", "d", "s">>,
     <<"p", "a", "t", "t", "e", "r", "n", "s">>}

\* Source attribution for factual queries
FactualKeywords ==
    {<<"w", "h", "o">>, <<"w", "h", "a", "t">>, <<"w", "h", "e", "n">>,
     <<"w", "h", "e", "r", "e">>, <<"h", "o", "w", " ", "m", "a", "n", "y">>,
     <<"s", "t", "a", "t", "i", "s", "t", "i", "c", "s">>,
     <<"d", "a", "t", "a">>, <<"f", "a", "c", "t", "s">>,
     <<"e", "v", "i", "d", "e", "n", "c", "e">>,
     <<"s", "o", "u", "r", "c", "e">>}

\* any(keyword in question_lower for keyword in [...])
AnyKeyword(question_lower, keywords) ==
    \E keyword \in keywords : Contains(question_lower, keyword)

\* (variant: the document count is looked at before the analysis keywords)
SelectTemplateByQueryTypeCountFirst(question, context_length) ==
    LET question_lower == LowerStr(question) IN
    IF AnyKeyword(question_lower, TechnicalKeywords) THEN "technical"
    ELSE IF context_length > 3 THEN "synthesis"
    ELSE IF AnyKeyword(question_lower, AnalysisKeywords) THEN "analysis"
    ELSE IF AnyKeyword(question_lower, FactualKeywords) THEN "source_attribution"
    ELSE "base"

SelectTemplateByQueryType(question, context_length) ==
    LET question_lower == LowerStr(question) IN
    IF AnyKeyword(question_lower, TechnicalKeywords) THEN "technical"
    ELSE IF AnyKeyword(question_lower, AnalysisKeywords) THEN "analysis"
    ELSE IF context_length > 3 THEN "synthesis"
    ELSE IF AnyKeyword(question_lower, FactualKeywords) THEN "source_attribution"
    ELSE "base"

\* The questions put to the engine.
Questions ==
    { <<"D", "a", "t", "e", " ", "t", "o", "d", "a", "y">>,   \* "Date today": direct
      <<"T", "O", "D", "A", "Y", " ", "u", "p", "d", "a", "t", "e">>,   \* "TODAY update": 'today' before 'date', inside a word
      <<"u", "p", "d", "a", "t", "e">>,   \* "update": 'date' only
      <<"r", "a", "g">> }   \* "rag": no keyword

\* The questions the template selection is applied to.
TemplateQuestions ==
    { <<"A", "P", "I", " ", "d", "a", "t", "a">>,   \* "API data": technical and factual
      <<"c", "o", "m", "p", "a", "r", "e", " ", "w", "h", "o">>,   \* "compare who": analysis and factual
      <<"s", "o", "m", "e", "w", "h", "a", "t">>,   \* "somewhat": factual, inside a word
      <<"D", "e", "c", "o", "d", "e", "r">>,   \* "Decoder": technical, inside a word
      <<"d", "e", "b", "u", "g", " ", "t", "r", "e", "n", "d", "s">>,   \* "debug trends": technical and analysis
      <<"I", "m", "p", "a", "c", "t">>,   \* "Impact": analysis
      <<"h", "o", "w", " ", " ", "m", "a", "n", "y">> }   \* "how  many": no keyword: two blanks
    \cup Questions

MaxContextLength == 5

NoSelection == [question |-> << >>, context_length |-> 0, template |-> "none"]

\* template_type = prompt_manager.select_template_by_query_type(question, n)
SelectTemplate ==
    /\ selection.template = "none"
    /\ selection' = [selection EXCEPT !.template =
                        SelectTemplateByQueryType(selection.question,
                                                  selection.context_length)]
    /\ UNCHANGED <<retrievalVars, confidenceVars, engineVars, citation, componentVars>>

\* ------------------------------------------------------ EnhancedRAGChain
\* What the names HybridRetriever and AdvancedRetriever are bound to when
\* __init__ runs: the classes of retrieval.py, whose __init__ takes
\* (vector_store, documents, config=None), or classes whose __init__ takes
\* any keyword arguments and whose retrieve calls return the document list
\* (tests/test_llm_enhanced.py binds such classes).
RetrieverBindings == {"retrieval", "any_keywords"}
AcceptsKeywords(binding) == binding = "any_keywords"

\* __init__: both constructions pass semantic_weight=, keyword_weight= and
\* k=; a TypeError leaves vector_store.as_retriever() and None.  recorded
\* counts the calls of _record_interaction (kept for the properties).
EnhancedRAGChainInit(binding) ==
    [binding |-> binding,
     retriever |-> IF AcceptsKeywords(binding) THEN "HybridRetriever"
                   ELSE "VectorStoreRetriever",
     advanced_retriever |-> IF AcceptsKeywords(binding) THEN "AdvancedRetriever"
                            ELSE "None",
     llm_provider |-> "default", recorded |-> 0]

\* Only the retriever classes have a retrieve method.
HasRetrieve(cls) == cls \in {"HybridRetriever", "AdvancedRetriever"}

\* (variant: the question is not lowercased)
HandleDirectQueryCaseSensitive(question) ==
    /\ Contains(question, <<"d", "a", "t", "e">>)
    /\ Contains(question, <<"t", "o", "d", "a", "y">>)

\* _handle_direct_query: "date" in question.lower() and "today" in ...
HandleDirectQuery(question) ==
    /\ Contains(LowerStr(question), <<"d", "a", "t", "e">>)
    /\ Contains(LowerStr(question), <<"t", "o", "d", "a", "y">>)

\* retriever_overrides: None, or a dict; a missing key is Absent.  Weights
\* are in tenths.
NoOverrides == [given |-> FALSE, semantic_weight |-> Absent, keyword_weight |-> Absent, k |-> Absent]
RetrieverOverrides ==
    {NoOverrides,
     [given |-> TRUE, semantic_weight |-> Absent, keyword_weight |-> Absent, k |-> 1],
     [given |-> TRUE, semantic_weight |-> 5, keyword_weight |-> Absent, k |-> Absent]}

\* _select_retriever: the default retriever, or a new HybridRetriever
\* built with keyword arguments when a weight is overridden.
SelectRetriever(e, overrides) ==
    IF ~overrides.given
          \/ (overrides.semantic_weight = Absent /\ overrides.keyword_weight = Absent)
    THEN [raised |-> FALSE, cls |-> e.retriever, built |-> FALSE]
    ELSE IF AcceptsKeywords(e.binding)
    THEN [raised |-> FALSE, cls |-> "HybridRetriever", built |-> TRUE]
    ELSE [raised |-> TRUE, cls |-> "None", built |-> FALSE]

\* chat_history arguments: lists of {role, content} messages.
ChatHistories ==
    {<< >>,
     << [role |-> "user", content |-> <<"m", "1">>],
        [role |-> "assistant", content |-> <<"m", "2">>],
        [role |-> "user", content |-> << >>],
        [role |-> "system", content |-> <<"m", "4">>],
        [role |-> "user", content |-> <<"m", "5">>],
        [role |-> "assistant", content |-> <<"m", "6">>],
        [role |-> "user", content |-> <<"m", "7">>] >>}

\* _prepare_history: the last 6 messages with content, prefixed by role.
PrepareHistory(chat_history) ==
    LET recent == LastN(chat_history, 6)
        kept == SelectSeq(recent, LAMBDA message : message.content # << >>)
    IN [i \in 1..Len(kept) |->
            [prefix |-> IF kept[i].role = "user" THEN "User: "
                        ELSE IF kept[i].role = "assistant" THEN "Assistant: "
                        ELSE "",
             content |-> kept[i].content]]

\* get_prompt_template: the template whose text the prompt is built from.
TemplateNames ==
    {"base", "source_attribution", "conversational", "synthesis", "technical",
     "analysis"}
GetPromptTemplate(template_type) ==
    IF template_type \in TemplateNames THEN template_type ELSE "base"

\* template_type arguments: None, a known name, an unknown name.
TemplateTypes == {"None", "technical", "fancy"}

\* What the language model answers, or its call raises.
LlmContents == {<<"2", "0", "2", "4", " ", "[", "1", "]">>}

\* answer.split(" "), the words named as the confidence scorer names them.
RECURSIVE SplitWords(_, _)
SplitWords(s, word) ==
    IF s = << >> THEN <<word>>
    ELSE IF Head(s) = " " THEN <<word>> \o SplitWords(Tail(s), << >>)
    ELSE SplitWords(Tail(s), Append(word, Head(s)))
WordName(word) ==
    IF word = <<"2", "0", "2", "4">> THEN "2024"
    ELSE IF Len(word) = 1 THEN word[1]
    ELSE "other"
AnswerWords(text) ==
    LET words == SplitWords(text, << >>) IN
    [i \in 1..Len(words) |-> WordName(words[i])]

\* _record_interaction: append, then keep the last 50.
HistoryCap == 50
\* (variant: the list is never cut)
RecordInteractionUncapped(history, question, answer_text, srcs) ==
    Append(history, [user |-> question, assistant |-> answer_text, sources |-> srcs])

RecordInteraction(history, question, answer_text, srcs) ==
    LET entry == [user |-> question, assistant |-> answer_text, sources |-> srcs]
        appended == Append(history, entry)
    IN IF Len(appended) > HistoryCap THEN LastN(appended, HistoryCap) ELSE appended

\* (variant: the interaction is recorded whatever conversation_context is)
PersistInteractionAlways(history, conversation_context, question, answer_text, srcs, include_sources) ==
    RecordInteraction(history, question, answer_text,
                      IF include_sources THEN srcs ELSE << >>)

\* if conversation_context:
\*     self._record_interaction(question, answer, sources if include_sources else [])
PersistInteraction(history, conversation_context, question, answer_text, srcs, include_sources) ==
    IF conversation_context
    THEN RecordInteraction(history, question, answer_text,
                           IF include_sources THEN srcs ELSE << >>)
    ELSE history

\* The language model of one call: the provider override given with the
\* query, whether invoke raises, and the text it answers.
LlmCalls ==
    {[provider |-> p, raises |-> r, content |-> c] :
        p \in {"default", "override"}, r \in BOOLEAN, c \in LlmContents}

NoResult ==
    [answer |-> << >>, sources |-> << >>, confidence_score |-> Absent,
     template_used |-> "none", num_sources |-> Absent, retrieval_stats |-> "none"]
NoRetrieval ==
    [method |-> "none", cls |-> "None", built |-> FALSE, semantic_weight |-> Absent,
     k |-> Absent, history |-> << >>]
NoError == [question |-> << >>, error |-> "none"]

\* The retrieve methods of the classes bound under "any_keywords" return
\* the engine's document list as it is.
BoundRetrieve == [i \in 1..NumChunks |-> i]

\* query(...): everything one call does, as a record: the outcome ("direct",
\* "result" or "LLMError"), the result or the error details, the number of
\* language-model and retriever invocations, the retrieval call made, the
\* template the prompt was built from, and the history and provider it
\* leaves.  k = Absent stands for None.
QueryRun(e, m, history, question, template_type, k, include_sources, chat_history, conversation_context, overrides, llm) ==
    LET use_context == chat_history # << >> /\ conversation_context
        selected == SelectRetriever(e, overrides)
        by_context == use_context /\ e.advanced_retriever # "None"
        retrieval ==
            [method |-> IF by_context THEN "retrieve_with_context" ELSE "retrieve",
             cls |-> IF by_context THEN e.advanced_retriever ELSE selected.cls,
             built |-> selected.built,
             semantic_weight |->
                 IF ~by_context /\ selected.built /\ overrides.semantic_weight # Absent
                 THEN overrides.semantic_weight ELSE SemanticWeight,
             k |-> IF overrides.given THEN overrides.k ELSE k,
             history |-> IF by_context THEN PrepareHistory(chat_history) ELSE << >>]
        documents == BoundRetrieve
        chosen == IF template_type = "None"
                  THEN SelectTemplateByQueryType(question, Len(documents))
                  ELSE template_type
        answer_text == ReplaceBracketCitations(llm.content)
        srcs == IF include_sources THEN ExtractSourceInfo(m, documents) ELSE << >>
        failed(error, retriever_calls, llm_invocations, provider, made) ==
            [outcome |-> "LLMError", result |-> NoResult,
             error |-> [question |-> question, error |-> error],
             llm_invocations |-> llm_invocations, retriever_calls |-> retriever_calls,
             retrieval |-> made, prompt_template |-> "none",
             history |-> history, recorded |-> FALSE, llm_provider |-> provider]
    IN
    IF HandleDirectQuery(question)
    THEN [outcome |-> "direct",
          result |-> [answer |-> <<"Today's date is ", "now", ".">>, sources |-> << >>,
                      confidence_score |-> ConfidenceOne,
                      template_used |-> "direct_query", num_sources |-> 0,
                      retrieval_stats |-> "empty"],
          error |-> NoError, llm_invocations |-> 0, retriever_calls |-> 0,
          retrieval |-> NoRetrieval, prompt_template |-> "none",
          history |-> history, recorded |-> FALSE, llm_provider |-> e.llm_provider]
    ELSE IF selected.raised
    THEN failed("TypeError", 0, 0, e.llm_provider, NoRetrieval)
    ELSE IF ~HasRetrieve(retrieval.cls)
    THEN failed("AttributeError", 0, 0, e.llm_provider, NoRetrieval)
    ELSE IF llm.raises
    THEN failed("llm", 1, 1, llm.provider, retrieval)
    ELSE [outcome |-> "result",
          result |-> [answer |-> answer_text, sources |-> srcs,
                      confidence_score |->
                          CalculateConfidenceScore(AnswerWords(answer_text),
                                                   Len(documents)),
                      template_used |-> chosen, num_sources |-> Len(documents),
                      retrieval_stats |->
                          IF HasRetrieve(e.retriever) THEN "get_retrieval_stats"
                          ELSE "empty"],
          error |-> NoError, llm_invocations |-> 1, retriever_calls |-> 1,
          retrieval |-> retrieval, prompt_template |-> GetPromptTemplate(chosen),
          history |-> PersistInteraction(history, conversation_context, question,
                                         answer_text, srcs, include_sources),
          recorded |-> conversation_context, llm_provider |-> llm.provider]

NoQuery ==
    [op |-> "none", question |-> << >>, template_type |-> "None",
     include_sources |-> FALSE, chat_history |-> << >>,
     conversation_context |-> FALSE, overrides |-> NoOverrides,
     llm_raises |-> FALSE, history_before |-> << >>,
     outcome |-> "none", result |-> NoResult, error |-> NoError,
     llm_invocations |-> 0, retriever_calls |-> 0, retrieval |-> NoRetrieval,
     prompt_template |-> "none"]

\* One call of engine.query; at most cap interactions are recorded.
Query(question, template_type, k, include_sources, chat_history, conversation_context, overrides, llm, cap) ==
    \E out \in {QueryRun(engine, meta, conversation_history, question, template_type,
                          k, include_sources, chat_history, conversation_context,
                          overrides, llm)} :
       /\ out.recorded => engine.recorded < cap
       /\ qcall' = [op |-> "query", question |-> question,
                    template_type |-> template_type,
                    include_sources |-> include_sources,
                    chat_history |-> chat_history,
                    conversation_context |-> conversation_context,
                    overrides |-> overrides, llm_raises |-> llm.raises,
                    history_before |-> conversation_history,
                    outcome |-> out.outcome, result |-> out.result,
                    error |-> out.error, llm_invocations |-> out.llm_invocations,
                    retriever_calls |-> out.retriever_calls,
                    retrieval |-> out.retrieval,
                    prompt_template |-> out.prompt_template]
       /\ conversation_history' = out.history
       /\ engine' = [engine EXCEPT
                        !.recorded = IF out.recorded THEN @ + 1 ELSE @,
                        !.llm_provider = out.llm_provider]
       /\ UNCHANGED <<retrievalVars, confidenceVars, pureVars, componentVars>>

\* ------------------------ AdvancedRetriever._rerank_documents on its own
\* The bm25_score an earlier keyword search can have left in a chunk.
Bm25Values(c) == {Absent} \cup {KeywordScore(q, c) : q \in IndexQueries}

\* Candidate lists: chunks of the corpus, each at most once.
CandidateLists ==
    {l \in UNION {[1..n -> Chunks] : n \in 0..NumChunks} :
        \A i, j \in 1..Len(l) : i # j => l[i] # l[j]}

NoRerank ==
    [stage |-> 0, query |-> << >>, candidates |-> << >>, first |-> << >>,
     first_meta |-> [c \in Chunks |-> NoMeta], second |-> << >>]

\* reranked = self._rerank_documents(query, documents)
Rerank ==
    /\ rerank.stage = 0
    /\ \E out \in {RerankDocuments(meta, rerank.query, rerank.candidates)} :
          /\ meta' = out.meta
          /\ rerank' = [rerank EXCEPT !.stage = 1, !.first = out.docs,
                                      !.first_meta = out.meta]
    /\ UNCHANGED <<retriever, query_history, result, call, sources, extracted>>
    /\ UNCHANGED <<confidenceVars, engineVars, pureVars, context_calls, context, recording, service, queue, ingestion>>

\* self._rerank_documents(query, reranked): the output re-ranked again.
RerankAgain ==
    /\ rerank.stage = 1
    /\ \E out \in {RerankDocuments(meta, rerank.query, rerank.first)} :
          /\ meta' = out.meta
          /\ rerank' = [rerank EXCEPT !.stage = 2, !.second = out.docs]
    /\ UNCHANGED <<retriever, query_history, result, call, sources, extracted>>
    /\ UNCHANGED <<confidenceVars, engineVars, pureVars, context_calls, context, recording, service, queue, ingestion>>

\* ------------------------ AdvancedRetriever.query_history over many calls
\* A retriever configured with query_expansion_history_size = TrackSize is
\* called at most MaxCalls times; context_calls lists the original query of
\* every call (kept for the properties).
TrackSize == 2
MaxCalls == 4

ContextLogged ==
    \E query \in Queries, h \in Histories, primFails \in BOOLEAN :
        /\ Len(context_calls) < MaxCalls
        /\ RetrieveWithContext(query, h, 0, primFails, FALSE)
        /\ context_calls' = Append(context_calls, query)
        /\ UNCHANGED <<rerank, context, recording, service, queue, ingestion>>

\* ------------------------------------ PromptManager.create_context_string
\* A document is rendered into a block ("### Source: ...", optional
\* location lines, "Content:", the text, a blank line); the model follows
\* the blocks by their length in characters.  The context string is the
\* list of its parts: the document, the characters taken from its block,
\* whether the part ends with the marker "...\n\n".
MaxBlocks == 3
BlockLengths == {35, 60, 120, 250}
MaxLengths == {0, 60, 100, 101, 160, 200, 300, 4000}

MinRemainingSpace == 100
ReservedSpace == 50
MarkerLength == 5

BlockLists == UNION {[1..n -> BlockLengths] : n \in 0..MaxBlocks}

\* (variant: the truncated block takes all of the remaining space)
RECURSIVE ContextPartsNoReserve(_, _, _, _)
ContextPartsNoReserve(blocks, i, current_length, max_length) ==
    IF i > Len(blocks) THEN << >>
    ELSE IF current_length + blocks[i] > max_length
    THEN LET remaining_space == max_length - current_length IN
         IF remaining_space > MinRemainingSpace
         THEN << [doc |-> i, taken |-> Min(blocks[i], remaining_space),
                  truncated |-> TRUE] >>
         ELSE << >>
    ELSE << [doc |-> i, taken |-> blocks[i], truncated |-> FALSE] >>
             \o ContextPartsNoReserve(blocks, i + 1, current_length + blocks[i], max_length)

\* The loop of create_context_string from document i on.
RECURSIVE ContextParts(_, _, _, _)
ContextParts(blocks, i, current_length, max_length) ==
    IF i > Len(blocks) THEN << >>
    ELSE IF current_length + blocks[i] > max_length
    THEN LET remaining_space == max_length - current_length IN
         IF remaining_space > MinRemainingSpace
         THEN << [doc |-> i, taken |-> Min(blocks[i], remaining_space - ReservedSpace),
                  truncated |-> TRUE] >>
         ELSE << >>
    ELSE << [doc |-> i, taken |-> blocks[i], truncated |-> FALSE] >>
             \o ContextParts(blocks, i + 1, current_length + blocks[i], max_length)

\* len("".join(context_parts))
RECURSIVE PartsLength(_)
PartsLength(parts) ==
    IF parts = << >> THEN 0
    ELSE Head(parts).taken + (IF Head(parts).truncated THEN MarkerLength ELSE 0)
            + PartsLength(Tail(parts))

NoContext ==
    [blocks |-> << >>, max_length |-> 0, parts |-> << >>, length |-> 0,
     done |-> FALSE]

\* context = prompt_manager.create_context_string(documents, max_length=...)
CreateContextString ==
    /\ ~context.done
    /\ \E parts \in {ContextParts(context.blocks, 1, 0, context.max_length)} :
          context' = [context EXCEPT !.parts = parts,
                                     !.length = PartsLength(parts),
                                     !.done = TRUE]
    /\ UNCHANGED <<retrievalVars, confidenceVars, engineVars, pureVars>>
    /\ UNCHANGED <<rerank, context_calls, recording, service, queue, ingestion>>

\* -------------------------------- EnhancedRAGChain.query, the retrieval part
\* query(question, chat_history, k) on working retrievers: with a chat
\* history retrieve_with_context on the advanced retriever, else retrieve
\* on the hybrid one, then _extract_source_info over what came back.  The
\* outcome is the chunk order, each chunk's relevance_score, and the
\* sources in order with their ids.
QueryOutcome(m, rs, question, history_lines, k) ==
    LET out == IF history_lines # << >>
               THEN AdvancedRetrieve(m, rs["advanced_retriever"],
                                     ExpandedQuery(question, history_lines),
                                     k, FALSE, FALSE)
               ELSE HybridRetrieve(m, rs["retriever"], question, k, FALSE, FALSE)
        srcs == ExtractSourceInfo(out.meta, out.docs)
    IN [documents |-> out.docs,
        relevance_scores |-> [i \in 1..Len(out.docs) |->
                                 out.meta[out.docs[i]].relevance_score],
        sources |-> [i \in 1..Len(srcs) |->
                        [id |-> srcs[i].id,
                         raw_file_path |-> srcs[i].raw_file_path]]]

\* The chunk metadata of an engine that has answered nothing yet.
FreshMeta == [c \in Chunks |-> NoMeta]

\* --------------------- EnhancedRAGChain._record_interaction, two threads
\* Two queries on one engine reach _record_interaction without a lock.
\* Each thread appends its entry to the list the attribute holds, reads the
\* length, and when it is over the cap builds the slice of the last 50 and
\* then stores it into the attribute; a thread switch can fall between any
\* two of these steps.
Threads == {1, 2}
OtherThread(t) == 3 - t

ThreadEntry(t) ==
    [user |-> <<"q", ToString(t)>>, assistant |-> <<"a", ToString(t)>>,
     sources |-> << >>]

\* The history n serialized interactions have left.
HistoryAfter(n) ==
    [i \in 1..n |-> [user |-> <<"t", ToString(i)>>, assistant |-> <<"a">>,
                     sources |-> << >>]]

\* (variant: the slice keeps the first 50)
TruncateHistoryKeepsOldest(list) == SubSeq(list, 1, Min(Len(list), HistoryCap))

\* self.conversation_history[-50:]
TruncateHistory(list) == LastN(list, HistoryCap)

NoRecording ==
    [pc |-> [t \in Threads |-> "idle"],
     sliced |-> [t \in Threads |-> << >>],
     overlapped |-> FALSE]

InProgress(t) == recording.pc[t] \notin {"idle", "done"}

\* self.conversation_history.append(entry)
RecordAppend ==
    \E t \in Threads :
        /\ recording.pc[t] = "idle"
        /\ conversation_history' = Append(conversation_history, ThreadEntry(t))
        /\ recording' = [recording EXCEPT
                            !.pc[t] = "check",
                            !.overlapped = @ \/ InProgress(OtherThread(t))]
        /\ UNCHANGED <<retrievalVars, confidenceVars, engine, qcall, pureVars>>
        /\ UNCHANGED <<rerank, context_calls, context, service, queue, ingestion>>

\* if len(self.conversation_history) > 50:
RecordCheck ==
    \E t \in Threads :
        /\ recording.pc[t] = "check"
        /\ recording' = [recording EXCEPT
                            !.pc[t] = IF Len(conversation_history) > HistoryCap
                                      THEN "slice" ELSE "done"]
        /\ UNCHANGED <<retrievalVars, confidenceVars, engineVars, pureVars>>
        /\ UNCHANGED <<rerank, context_calls, context, service, queue, ingestion>>

\* ... self.conversation_history[-50:] (the new list, not yet stored)
RecordSlice ==
    \E t \in Threads :
        /\ recording.pc[t] = "slice"
        /\ recording' = [recording EXCEPT
                            !.pc[t] = "store",
                            !.sliced[t] = TruncateHistory(conversation_history)]
        /\ UNCHANGED <<retrievalVars, confidenceVars, engineVars, pureVars>>
        /\ UNCHANGED <<rerank, context_calls, context, service, queue, ingestion>>

\* self.conversation_history = ...
RecordStore ==
    \E t \in Threads :
        /\ recording.pc[t] = "store"
        /\ conversation_history' = recording.sliced[t]
        /\ recording' = [recording EXCEPT !.pc[t] = "done", !.sliced[t] = << >>]
        /\ UNCHANGED <<retrievalVars, confidenceVars, engine, qcall, pureVars>>
        /\ UNCHANGED <<rerank, context_calls, context, service, queue, ingestion>>

\* ------------------------------------------------------------ RAGService
\* The corpus is the number of chunk files on disk; a chain remembers the
\* documents it was built from, and a caller the corpus of the last reset
\* that had returned when its call started.
MaxResets == 2
NoChain == [documents |-> 0]
NoCaller == [pc |-> "idle", started |-> 0, documents |-> 0,
             returned |-> NoChain]

\* RAGService.__init__: no chain, both locks free, an empty cache.
RAGServiceInit ==
    [enhanced_chain |-> NoChain, chain_lock |-> 0, chunk_cache |-> 0,
     disk |-> 0, resets |-> 0, reset_disk |-> 0, reset_pc |-> "idle",
     callers |-> [t \in Threads |-> NoCaller]]

ServiceUnchanged ==
    /\ UNCHANGED <<retrievalVars, confidenceVars, engineVars, pureVars>>
    /\ UNCHANGED <<rerank, context_calls, context, recording, queue, ingestion>>

\* chain = self._enhanced_chain; if chain is not None: return chain
EnsureStart ==
    \E t \in Threads :
        /\ service.callers[t].pc = "idle"
        /\ service' = [service EXCEPT !.callers[t] =
               [NoCaller EXCEPT
                   !.started = service.reset_disk,
                   !.returned = service.enhanced_chain,
                   !.pc = IF service.enhanced_chain # NoChain
                          THEN "return" ELSE "acquire"]]
        /\ ServiceUnchanged

\* with self._chain_lock:
EnsureAcquire ==
    \E t \in Threads :
        /\ service.callers[t].pc = "acquire"
        /\ service.chain_lock = 0
        /\ service' = [service EXCEPT !.chain_lock = t,
                                      !.callers[t].pc = "recheck"]
        /\ ServiceUnchanged

\* if self._enhanced_chain is not None: return self._enhanced_chain
EnsureRecheck ==
    \E t \in Threads :
        /\ service.callers[t].pc = "recheck"
        /\ service' =
             IF service.enhanced_chain # NoChain
             THEN [service EXCEPT !.chain_lock = 0,
                                  !.callers[t].returned = service.enhanced_chain,
                                  !.callers[t].pc = "return"]
             ELSE [service EXCEPT !.callers[t].pc = "load"]
        /\ ServiceUnchanged

\* documents = self._load_documents(); if not documents: return None
EnsureLoad ==
    \E t \in Threads :
        /\ service.callers[t].pc = "load"
        /\ service' =
             IF service.disk = 0
             THEN [service EXCEPT !.chain_lock = 0,
                                  !.callers[t].returned = NoChain,
                                  !.callers[t].pc = "return"]
             ELSE [service EXCEPT !.chunk_cache = service.disk,
                                  !.callers[t].documents = service.disk,
                                  !.callers[t].pc = "build"]
        /\ ServiceUnchanged

\* self._enhanced_chain = EnhancedRAGChain(vectordb, documents); return it
EnsureBuild ==
    \E t \in Threads :
        /\ service.callers[t].pc = "build"
        /\ \E chain \in {[documents |-> service.callers[t].documents]} :
               service' = [service EXCEPT !.enhanced_chain = chain,
                                          !.chain_lock = 0,
                                          !.callers[t].returned = chain,
                                          !.callers[t].pc = "return"]
        /\ ServiceUnchanged

\* The caller has its result.
EnsureReturn ==
    \E t \in Threads :
        /\ service.callers[t].pc = "return"
        /\ service' = [service EXCEPT !.callers[t] = NoCaller]
        /\ ServiceUnchanged

\* An ingestion job has written its chunk file; on_success calls reset_chain.
IngestCompleted ==
    /\ service.reset_pc = "idle"
    /\ service.resets < MaxResets
    /\ service' = [service EXCEPT !.disk = @ + 1, !.reset_pc = "clear_chain"]
    /\ ServiceUnchanged

\* reset_chain: self._enhanced_chain = None
ResetClearChain ==
    /\ service.reset_pc = "clear_chain"
    /\ service' = [service EXCEPT !.enhanced_chain = NoChain,
                                  !.reset_pc = "clear_cache"]
    /\ ServiceUnchanged

\* reset_chain: with self._cache_lock: self._chunk_cache.clear(); return
ResetClearCache ==
    /\ service.reset_pc = "clear_cache"
    /\ service' = [service EXCEPT !.chunk_cache = 0,
                                  !.resets = @ + 1,
                                  !.reset_disk = service.disk,
                                  !.reset_pc = "idle"]
    /\ ServiceUnchanged

\* -------------------------------------------------------- AsyncTaskQueue
\* Tasks are numbered in the order submit created them; _tasks maps a job id
\* to the number of its task, 0 for no entry.  A task is done when it has
\* finished or has been cancelled; a cancel() request is delivered later,
\* and done callbacks run later still, from the event loop.
MaxTasks == 3
JobIds == {"job_a", "job_b"}

\* AsyncTaskQueue.__init__
AsyncTaskQueueInit ==
    [tasks |-> << >>, tracked |-> [j \in JobIds |-> 0], cancel_result |-> "none"]

TaskDone(task) == task.state \in {"finished", "cancelled"}

\* Task.cancel(): a request, refused by a task that is already done.
TaskCancel(task) ==
    IF TaskDone(task) THEN task ELSE [task EXCEPT !.state = "cancelling"]

QueueUnchanged ==
    /\ UNCHANGED <<retrievalVars, confidenceVars, engineVars, pureVars>>
    /\ UNCHANGED <<rerank, context_calls, context, recording, service, ingestion>>

\* submit(job_id, coroutine_factory): cancel a previous task that is not
\* done, create the task and store it under the job id.
QueueSubmit(q, job_id) ==
    [q EXCEPT
        !.tasks = Append(IF q.tracked[job_id] # 0
                         THEN [q.tasks EXCEPT ![q.tracked[job_id]] = TaskCancel(@)]
                         ELSE q.tasks,
                         [job |-> job_id, state |-> "running", callback |-> "none"]),
        !.tracked[job_id] = Len(q.tasks) + 1]

Submit ==
    \E job_id \in JobIds :
        /\ Len(queue.tasks) < MaxTasks
        /\ queue' = QueueSubmit(queue, job_id)
        /\ QueueUnchanged

\* get(job_id)
Get(q, job_id) == q.tracked[job_id]

\* cancel(job_id): pop the entry and ask its task to cancel; True unless
\* there is no entry or the task is already done.
QueueCancel(q, job_id) ==
    IF q.tracked[job_id] = 0
    THEN [q EXCEPT !.cancel_result = "false"]
    ELSE [q EXCEPT
            !.tracked[job_id] = 0,
            !.tasks[q.tracked[job_id]] = TaskCancel(@),
            !.cancel_result = IF TaskDone(q.tasks[q.tracked[job_id]])
                              THEN "false" ELSE "true"]

Cancel ==
    \E job_id \in JobIds :
        /\ queue' = QueueCancel(queue, job_id)
        /\ QueueUnchanged

\* The task's coroutine returns or raises.
TaskFinishes ==
    /\ \E i \in 1..Len(queue.tasks) :
        /\ queue.tasks[i].state = "running"
        /\ queue' = [queue EXCEPT !.tasks[i].state = "finished",
                                  !.tasks[i].callback = "scheduled"]
    /\ QueueUnchanged

\* The event loop delivers CancelledError to the task.
TaskCancelled ==
    /\ \E i \in 1..Len(queue.tasks) :
        /\ queue.tasks[i].state = "cancelling"
        /\ queue' = [queue EXCEPT !.tasks[i].state = "cancelled",
                                  !.tasks[i].callback = "scheduled"]
    /\ QueueUnchanged

\* lambda t, jid=job_id: self._tasks.pop(jid, None)
DoneCallback(q, i) ==
    [q EXCEPT !.tasks[i].callback = "ran",
              !.tracked[q.tasks[i].job] = 0]

\* The event loop runs a finished task's done callback.
RunDoneCallback ==
    /\ \E i \in 1..Len(queue.tasks) :
        /\ queue.tasks[i].callback = "scheduled"
        /\ queue' = DoneCallback(queue, i)
    /\ QueueUnchanged

\* ------------------------------------------------------ IngestionService
\* A job is its record in the job table (status, error, details.chunks_count),
\* the staged upload, and the run of process_job inside the task that
\* schedule_job submitted: where the coroutine is suspended, what it
\* returned or raised, and whether _runner called on_success.
MaxChunks == 2
TerminalStatuses == {"completed", "skipped", "failed"}
NoOutcome == [chunks_processed |-> Absent, status |-> "none"]

\* enqueue_upload: the staged file and, where the record exists, a job
\* record with status queued.
JobRecord(exists, on_success) ==
    [exists |-> exists, status |-> IF exists THEN "queued" ELSE "absent",
     statuses |-> << >>, error |-> "none", chunks_count |-> Absent,
     file |-> TRUE, on_success |-> on_success, on_success_calls |-> 0,
     task |-> 0, pc |-> "unscheduled", chunks |-> 0, exc |-> "none",
     result |-> NoOutcome, raised |-> "none", ended |-> "no"]

NoIngestion == [j \in JobIds |-> JobRecord(FALSE, FALSE)]

\* job_repo.update(job_id, status=...): no record, nothing to update.
UpdateStatus(job, status) ==
    IF job.exists
    THEN [job EXCEPT !.status = status, !.statuses = Append(@, status)]
    ELSE job

IngestionUnchanged ==
    /\ UNCHANGED <<retrievalVars, confidenceVars, engineVars, pureVars>>
    /\ UNCHANGED <<rerank, context_calls, context, recording, service>>

\* The task of job j is running and no cancellation has been requested.
TaskRuns(j) ==
    /\ ingestion[j].task # 0
    /\ queue.tasks[ingestion[j].task].state = "running"

\* The task's coroutine has ended: the task is done, its callback scheduled.
TaskEnded(q, task, state) ==
    [q EXCEPT !.tasks[task].state = state, !.tasks[task].callback = "scheduled"]

\* schedule_job(job_id, file_path, on_success): submit _runner to the queue.
ScheduleJob ==
    \E j \in JobIds :
        /\ ingestion[j].pc = "unscheduled"
        /\ queue' = QueueSubmit(queue, j)
        /\ ingestion' = [ingestion EXCEPT ![j].task = Len(queue.tasks) + 1,
                                          ![j].pc = "start"]
        /\ IngestionUnchanged

\* cancel_job(job_id)
CancelJob ==
    \E j \in JobIds :
        /\ queue' = QueueCancel(queue, j)
        /\ UNCHANGED ingestion
        /\ IngestionUnchanged

\* process_job: read the job record, raise ValueError if there is none,
\* else set status processing and start chunking in a thread.
ProcessStart ==
    \E j \in JobIds :
        /\ ingestion[j].pc = "start"
        /\ TaskRuns(j)
        /\ ingestion' = [ingestion EXCEPT ![j] =
               IF ingestion[j].exists
               THEN [UpdateStatus(@, "processing") EXCEPT !.pc = "chunking"]
               ELSE [@ EXCEPT !.pc = "failing", !.exc = "job_not_found"]]
        /\ UNCHANGED queue
        /\ IngestionUnchanged

\* chunks = await asyncio.to_thread(process_document, file_path)
ProcessChunked ==
    \E j \in JobIds :
        /\ ingestion[j].pc = "chunking"
        /\ TaskRuns(j)
        /\ \E n \in 0..MaxChunks :
            ingestion' = [ingestion EXCEPT ![j] =
                IF n = 0
                THEN [@ EXCEPT !.chunks = 0, !.chunks_count = 0, !.pc = "skipping"]
                ELSE [@ EXCEPT !.chunks = n, !.chunks_count = n, !.pc = "building"]]
        /\ UNCHANGED queue
        /\ IngestionUnchanged

\* process_document raises.
ProcessChunkFails ==
    \E j \in JobIds :
        /\ ingestion[j].pc = "chunking"
        /\ TaskRuns(j)
        /\ ingestion' = [ingestion EXCEPT ![j].pc = "failing",
                                          ![j].exc = "chunking_failed"]
        /\ UNCHANGED queue
        /\ IngestionUnchanged

\* if not chunks: status skipped, staged file removed, result returned;
\* _runner calls nothing and the task finishes.
ProcessSkipped ==
    \E j \in JobIds :
        /\ ingestion[j].pc = "skipping"
        /\ TaskRuns(j)
        /\ ingestion' = [ingestion EXCEPT ![j] =
               [UpdateStatus(@, "skipped") EXCEPT
                   !.file = FALSE,
                   !.result = [chunks_processed |-> 0, status |-> "skipped"],
                   !.pc = "ended", !.ended = "returned"]]
        /\ queue' = TaskEnded(queue, ingestion[j].task, "finished")
        /\ IngestionUnchanged

\* await asyncio.to_thread(build_vector_store, chunks)
ProcessBuilt ==
    \E j \in JobIds :
        /\ ingestion[j].pc = "building"
        /\ TaskRuns(j)
        /\ ingestion' = [ingestion EXCEPT ![j].pc = "completing"]
        /\ UNCHANGED queue
        /\ IngestionUnchanged

\* build_vector_store raises.
ProcessBuildFails ==
    \E j \in JobIds :
        /\ ingestion[j].pc = "building"
        /\ TaskRuns(j)
        /\ ingestion' = [ingestion EXCEPT ![j].pc = "failing",
                                          ![j].exc = "build_failed"]
        /\ UNCHANGED queue
        /\ IngestionUnchanged

\* _runner: if result.get("status") == "completed" and on_success is not None
RunnerOnSuccess(job, outcome) ==
    IF outcome.status = "completed" /\ job.on_success
    THEN [job EXCEPT !.on_success_calls = @ + 1]
    ELSE job

\* status completed, result returned; _runner calls on_success and the task
\* finishes.
ProcessCompleted ==
    \E j \in JobIds :
        /\ ingestion[j].pc = "completing"
        /\ TaskRuns(j)
        /\ \E outcome \in {[chunks_processed |-> ingestion[j].chunks,
                            status |-> "completed"]} :
            ingestion' = [ingestion EXCEPT ![j] =
                [RunnerOnSuccess(UpdateStatus(@, "completed"), outcome) EXCEPT
                    !.result = outcome, !.pc = "ended", !.ended = "returned"]]
        /\ queue' = TaskEnded(queue, ingestion[j].task, "finished")
        /\ IngestionUnchanged

\* except Exception as exc: status failed with error=str(exc), staged file
\* removed, raise; _runner logs the exception and the task finishes.
ProcessFailed ==
    \E j \in JobIds :
        /\ ingestion[j].pc = "failing"
        /\ TaskRuns(j)
        /\ \E job \in {ingestion[j]} :
            ingestion' = [ingestion EXCEPT ![j] =
               [UpdateStatus(job, "failed") EXCEPT
                   !.error = IF job.exists THEN job.exc ELSE "none",
                   !.file = FALSE,
                   !.raised = job.exc,
                   !.pc = "ended", !.ended = "raised"]]
        /\ queue' = TaskEnded(queue, ingestion[j].task, "finished")
        /\ IngestionUnchanged

\* The event loop throws CancelledError into the suspended coroutine.  It is
\* not an Exception: neither process_job's handler nor _runner's catches it,
\* and the task ends cancelled with the record as it was.
CancelDelivered ==
    \E j \in JobIds :
        /\ ingestion[j].task # 0
        /\ ingestion[j].pc # "ended"
        /\ queue.tasks[ingestion[j].task].state = "cancelling"
        /\ ingestion' = [ingestion EXCEPT
               ![j].ended = IF ingestion[j].pc = "start"
                            THEN "never_ran" ELSE "cancelled",
               ![j].pc = "ended"]
        /\ queue' = TaskEnded(queue, ingestion[j].task, "cancelled")
        /\ IngestionUnchanged

\* The components modelled on their own, as constructed.
ComponentsIdle ==
    /\ rerank = NoRerank
    /\ context_calls = << >>
    /\ context = NoContext
    /\ recording = NoRecording
    /\ service = RAGServiceInit
    /\ queue = AsyncTaskQueueInit
    /\ ingestion = NoIngestion

Init ==
    /\ ComponentsIdle
    /\ meta = [c \in Chunks |-> NoMeta]
    /\ \E primaryFails \in BOOLEAN, fallbackFails \in BOOLEAN :
          retriever = [o \in Retrievers |->
                          HybridRetrieverInit(InitBm25Retriever(primaryFails, fallbackFails))]
    /\ query_history = << >>
    /\ result = << >>
    /\ call = NoCall
    /\ sources = << >>
    /\ extracted = FALSE
    /\ answer = << >>
    /\ num_documents = 0
    /\ confidence = Absent
    /\ engine = EnhancedRAGChainInit("retrieval")
    /\ conversation_history = << >>
    /\ qcall = NoQuery
    /\ citation = NoCitation
    /\ selection = NoSelection

Next ==
    \/ RetrieveOk
    \/ RetrieveFallback
    \/ RetrieveBothFail
    \/ ContextOk
    \/ ContextFallback
    \/ ExtractSources
    \/ ScoreAnswer

Spec == Init /\ [][Next]_vars

\* Retrieval followed by source aggregation, as EnhancedRAGChain.query
\* chains them: the hybrid retriever with its vector fallback, or the
\* advanced retriever when there is conversation context.
NextSources == RetrieveOk \/ RetrieveFallback \/ ContextOk \/ ExtractSources
SpecSources == Init /\ [][NextSources]_vars

\* The confidence scorer alone, applied to every answer text over Words of
\* at most MaxAnswerWords words and every number of documents up to
\* MaxDocuments.
InitConfidence ==
    /\ ComponentsIdle
    /\ meta = [c \in Chunks |-> NoMeta]
    /\ retriever = [o \in Retrievers |->
                        HybridRetrieverInit(InitBm25Retriever(FALSE, FALSE))]
    /\ query_history = << >>
    /\ result = << >>
    /\ call = NoCall
    /\ sources = << >>
    /\ extracted = FALSE
    /\ answer \in Answers
    /\ num_documents \in 0..MaxDocuments
    /\ confidence = Absent
    /\ engine = EnhancedRAGChainInit("retrieval")
    /\ conversation_history = << >>
    /\ qcall = NoQuery
    /\ citation = NoCitation
    /\ selection = NoSelection

NextConfidence == ScoreAnswer
SpecConfidence == InitConfidence /\ [][NextConfidence]_vars

\* The HybridRetriever alone.
NextHybrid == RetrieveOk \/ RetrieveFallback \/ RetrieveBothFail
SpecHybrid == Init /\ [][NextHybrid]_vars

\* The AdvancedRetriever alone.
NextAdvanced == ContextOk \/ ContextFallback
SpecAdvanced == Init /\ [][NextAdvanced]_vars

\* The parts of the state a specification of one function leaves as
\* constructed.
RetrievalIdle ==
    /\ meta = [c \in Chunks |-> NoMeta]
    /\ retriever = [o \in Retrievers |->
                        HybridRetrieverInit(InitBm25Retriever(FALSE, FALSE))]
    /\ query_history = << >>
    /\ result = << >>
    /\ call = NoCall
    /\ sources = << >>
    /\ extracted = FALSE
ConfidenceIdle ==
    /\ answer = << >>
    /\ num_documents = 0
    /\ confidence = Absent

\* replace_bracket_citations applied to each text.
InitCitations ==
    /\ ComponentsIdle
    /\ RetrievalIdle
    /\ ConfidenceIdle
    /\ engine = EnhancedRAGChainInit("retrieval")
    /\ conversation_history = << >>
    /\ qcall = NoQuery
    /\ \E text \in Texts : citation = [NoCitation EXCEPT !.text = text]
    /\ selection = NoSelection
NextCitations == FormatCitations
SpecCitations == InitCitations /\ [][NextCitations]_vars

\* select_template_by_query_type applied to each question and count.
InitTemplates ==
    /\ ComponentsIdle
    /\ RetrievalIdle
    /\ ConfidenceIdle
    /\ engine = EnhancedRAGChainInit("retrieval")
    /\ conversation_history = << >>
    /\ qcall = NoQuery
    /\ citation = NoCitation
    /\ \E question \in TemplateQuestions, n \in 0..MaxContextLength :
          selection = [question |-> question, context_length |-> n,
                       template |-> "none"]
NextTemplates == SelectTemplate
SpecTemplates == InitTemplates /\ [][NextTemplates]_vars

\* The engine as EnhancedRAGChain(vector_store, documents) builds it, under
\* either binding of the retriever classes, and the calls made to it.  At
\* most MaxTurns interactions are recorded.
MaxTurns == 2

InitEngine ==
    /\ ComponentsIdle
    /\ RetrievalIdle
    /\ ConfidenceIdle
    /\ \E binding \in RetrieverBindings : engine = EnhancedRAGChainInit(binding)
    /\ conversation_history = << >>
    /\ qcall = NoQuery
    /\ citation = NoCitation
    /\ selection = NoSelection

\* engine.query(question) with every other argument at its default
\* (template_type=None, include_sources=True, chat_history=None,
\* conversation_context=True, no overrides), or with llm_overrides.
QueryDefaults ==
    \E question \in Questions, llm \in LlmCalls :
        Query(question, "None", MaxK, TRUE, << >>, TRUE, NoOverrides, llm, MaxTurns)

\* The language model that answers, reached through the default provider.
LlmAnswers == {llm \in LlmCalls : llm.provider = "default" /\ ~llm.raises}

\* engine.query(question, template_type=...)
QueryTemplate ==
    \E question \in Questions, template_type \in TemplateTypes \ {"None"},
       llm \in LlmAnswers :
        Query(question, template_type, MaxK, TRUE, << >>, TRUE, NoOverrides, llm,
              MaxTurns)

\* engine.query(question, chat_history=..., conversation_context=...,
\* include_sources=...)
QueryConversation ==
    \E question \in Questions, chat_history \in ChatHistories,
       conversation_context \in BOOLEAN, include_sources \in BOOLEAN,
       llm \in LlmAnswers :
        Query(question, "None", MaxK, include_sources, chat_history,
              conversation_context, NoOverrides, llm, MaxTurns)

\* engine.query(question, retriever_overrides={...})
QueryOverrides ==
    \E question \in Questions, overrides \in RetrieverOverrides \ {NoOverrides},
       chat_history \in ChatHistories, llm \in LlmAnswers :
        Query(question, "None", MaxK, TRUE, chat_history, TRUE, overrides, llm,
              MaxTurns)

NextEngine == QueryDefaults \/ QueryTemplate \/ QueryConversation \/ QueryOverrides
SpecEngine == InitEngine /\ [][NextEngine]_vars

\* One engine asked a numbered series of questions, each recorded, with
\* other queries in between.  At most MaxRecorded interactions are recorded.
MaxRecorded == 52

\* "rag n": the question of the n-th recorded interaction.
TurnQuestion(n) ==
    <<"r", "a", "g", " ">>
        \o (IF n >= 10 THEN <<ToString(n \div 10)>> ELSE << >>)
        \o <<ToString(n % 10)>>

\* engine.query("rag n") for the next n.
QueryNumbered ==
    \E llm \in LlmCalls :
        /\ llm.provider = "default"
        /\ Query(TurnQuestion(engine.recorded + 1), "None", MaxK, TRUE, << >>, TRUE,
                 NoOverrides, llm, MaxRecorded)

\* engine.query(question, conversation_context=False), and the direct
\* questions.
QueryAside ==
    \E question \in Questions, llm \in LlmAnswers :
        Query(question, "None", MaxK, TRUE, << >>, FALSE, NoOverrides, llm,
              MaxRecorded)

NextHistory == QueryNumbered \/ QueryAside
SpecHistory == InitEngine /\ [][NextHistory]_vars

\* _rerank_documents applied to each candidate list, then to its own
\* output.
InitRerank ==
    /\ \E b \in [Chunks -> UNION {Bm25Values(c) : c \in Chunks}] :
          /\ \A c \in Chunks : b[c] \in Bm25Values(c)
          /\ meta = [c \in Chunks |-> [NoMeta EXCEPT !.bm25_score = b[c]]]
    /\ retriever = [o \in Retrievers |->
                        HybridRetrieverInit(InitBm25Retriever(FALSE, FALSE))]
    /\ query_history = << >>
    /\ result = << >>
    /\ call = NoCall
    /\ sources = << >>
    /\ extracted = FALSE
    /\ ConfidenceIdle
    /\ engine = EnhancedRAGChainInit("retrieval")
    /\ conversation_history = << >>
    /\ qcall = NoQuery
    /\ citation = NoCitation
    /\ selection = NoSelection
    /\ \E query \in IndexQueries, candidates \in CandidateLists :
          rerank = [NoRerank EXCEPT !.query = query, !.candidates = candidates]
    /\ context_calls = << >>
    /\ context = NoContext
    /\ recording = NoRecording
    /\ ingestion = NoIngestion
    /\ queue = AsyncTaskQueueInit
    /\ service = RAGServiceInit
NextRerank == Rerank \/ RerankAgain
SpecRerank == InitRerank /\ [][NextRerank]_vars

\* retrieve_with_context called again and again on one retriever.
InitTrack ==
    /\ meta = [c \in Chunks |-> NoMeta]
    /\ retriever = [o \in Retrievers |->
                        [HybridRetrieverInit(InitBm25Retriever(FALSE, FALSE))
                            EXCEPT !.history_size = TrackSize]]
    /\ query_history = << >>
    /\ result = << >>
    /\ call = NoCall
    /\ sources = << >>
    /\ extracted = FALSE
    /\ ConfidenceIdle
    /\ engine = EnhancedRAGChainInit("retrieval")
    /\ conversation_history = << >>
    /\ qcall = NoQuery
    /\ citation = NoCitation
    /\ selection = NoSelection
    /\ ComponentsIdle
NextTrack == ContextLogged
SpecTrack == InitTrack /\ [][NextTrack]_vars

\* create_context_string applied to each list of blocks and each budget.
InitContext ==
    /\ RetrievalIdle
    /\ ConfidenceIdle
    /\ engine = EnhancedRAGChainInit("retrieval")
    /\ conversation_history = << >>
    /\ qcall = NoQuery
    /\ citation = NoCitation
    /\ selection = NoSelection
    /\ rerank = NoRerank
    /\ context_calls = << >>
    /\ recording = NoRecording
    /\ ingestion = NoIngestion
    /\ queue = AsyncTaskQueueInit
    /\ service = RAGServiceInit
    /\ \E blocks \in BlockLists, max_length \in MaxLengths :
          context = [NoContext EXCEPT !.blocks = blocks, !.max_length = max_length]
NextContext == CreateContextString
SpecContext == InitContext /\ [][NextContext]_vars

\* Two threads in _record_interaction on an engine that has recorded n
\* interactions before.
InitRecording ==
    /\ RetrievalIdle
    /\ ConfidenceIdle
    /\ engine = EnhancedRAGChainInit("any_keywords")
    /\ \E n \in 0..HistoryCap : conversation_history = HistoryAfter(n)
    /\ qcall = NoQuery
    /\ citation = NoCitation
    /\ selection = NoSelection
    /\ ComponentsIdle
NextRecording ==
    RecordAppend \/ RecordCheck \/ RecordSlice \/ RecordStore
SpecRecording == InitRecording /\ [][NextRecording]_vars

\* A service with an empty or a one-file corpus, two threads asking for the
\* chain, and ingestion jobs completing.
InitService ==
    /\ RetrievalIdle
    /\ ConfidenceIdle
    /\ engine = EnhancedRAGChainInit("any_keywords")
    /\ conversation_history = << >>
    /\ qcall = NoQuery
    /\ citation = NoCitation
    /\ selection = NoSelection
    /\ rerank = NoRerank
    /\ context_calls = << >>
    /\ context = NoContext
    /\ recording = NoRecording
    /\ ingestion = NoIngestion
    /\ queue = AsyncTaskQueueInit
    /\ \E files \in 0..1 : service = [RAGServiceInit EXCEPT !.disk = files]
NextService ==
    \/ EnsureStart
    \/ EnsureAcquire
    \/ EnsureRecheck
    \/ EnsureLoad
    \/ EnsureBuild
    \/ EnsureReturn
    \/ IngestCompleted
    \/ ResetClearChain
    \/ ResetClearCache
SpecService == InitService /\ [][NextService]_vars

\* An empty queue, jobs being submitted, cancelled and run by the loop.
InitQueue ==
    /\ RetrievalIdle
    /\ ConfidenceIdle
    /\ engine = EnhancedRAGChainInit("any_keywords")
    /\ conversation_history = << >>
    /\ qcall = NoQuery
    /\ citation = NoCitation
    /\ selection = NoSelection
    /\ ComponentsIdle
NextQueue ==
    \/ Submit
    \/ Cancel
    \/ TaskFinishes
    \/ TaskCancelled
    \/ RunDoneCallback
SpecQueue == InitQueue /\ [][NextQueue]_vars

\* Two uploads staged, their job records created or missing, with or
\* without an on_success callback; jobs are scheduled, cancelled and run.
InitIngestion ==
    /\ RetrievalIdle
    /\ ConfidenceIdle
    /\ engine = EnhancedRAGChainInit("any_keywords")
    /\ conversation_history = << >>
    /\ qcall = NoQuery
    /\ citation = NoCitation
    /\ selection = NoSelection
    /\ rerank = NoRerank
    /\ context_calls = << >>
    /\ context = NoContext
    /\ recording = NoRecording
    /\ service = RAGServiceInit
    /\ queue = AsyncTaskQueueInit
    /\ ingestion \in [JobIds -> {JobRecord(e, c) : e \in BOOLEAN, c \in BOOLEAN}]
NextIngestion ==
    \/ ScheduleJob
    \/ CancelJob
    \/ ProcessStart
    \/ ProcessChunked
    \/ ProcessChunkFails
    \/ ProcessSkipped
    \/ ProcessBuilt
    \/ ProcessBuildFails
    \/ ProcessCompleted
    \/ ProcessFailed
    \/ CancelDelivered
    \/ RunDoneCallback
SpecIngestion == InitIngestion /\ [][NextIngestion]_vars

\* The event loop keeps running every task that can run: each step of a
\* scheduled coroutine, each delivery of a cancellation and each done
\* callback happens eventually.  Nothing obliges a client to schedule or
\* to cancel a job.
IngestionFairness ==
    /\ WF_vars(ProcessStart)
    /\ WF_vars(ProcessChunked \/ ProcessChunkFails)
    /\ WF_vars(ProcessSkipped)
    /\ WF_vars(ProcessBuilt \/ ProcessBuildFails)
    /\ WF_vars(ProcessCompleted)
    /\ WF_vars(ProcessFailed)
    /\ WF_vars(CancelDelivered)
    /\ WF_vars(RunDoneCallback)
SpecIngestionFair == SpecIngestion /\ IngestionFairness
\* ===================================================== HybridRetriever
\* The first k results of one vector-only call for the last query.
VectorFirstK == Take(VectorIndex[call.query], call.k)

\* C1: retrieve(query, k), k >= 1, returns at most k chunks and the chunk at
\* position i of the returned list carries retrieval_rank = i, on the
\* primary path and on the vector fallback path alike.
C1_AtMostKRankedFromOne ==
    call.op = "retrieve" =>
        /\ Len(result) <= call.k
        /\ \A i \in 1..Len(result) : meta[result[i]].retrieval_rank = i

\* C2: retrieve never raises; when the primary call throws, the query
\* returns the first k results of one vector-only call (nothing when that
\* throws too); the fallback is not sticky: the next query whose primary
\* call works goes through the primary retriever again, and the mode that
\* get_retrieval_stats reports never changes.
C2_ReturnedOnFailure ==
    call.op = "retrieve" =>
        /\ ~call.raised
        /\ call.prim_failed =>
              /\ call.path = "fallback"
              /\ result = IF call.vec_failed THEN << >> ELSE VectorFirstK
        /\ ~call.prim_failed => call.path = "primary"

C2_NeverRaisesFallbackPerQuery ==
    /\ []C2_ReturnedOnFailure
    /\ [][GetRetrievalStats(retriever'["retriever"]) = GetRetrievalStats(retriever["retriever"])]_vars

C2_Witness ==
    /\ call.op = "retrieve"
    /\ call.prim_failed
    /\ ~call.vec_failed
    /\ Len(result) = call.k
    /\ GetRetrievalStats(retriever["retriever"]).is_ensemble

\* C3: when no keyword retriever could be built, every retrieve returns
\* exactly the first k results of the vector retriever in vector order,
\* each tagged retrieval_method = "vector_only", and the stats report
\* is_ensemble = false and has_bm25 = false.
C3_VectorOnlyForLife ==
    (retriever["retriever"].bm25 = "None" /\ call.op = "retrieve") =>
        /\ ~call.vec_failed => result = VectorFirstK
        /\ \A i \in 1..Len(result) : meta[result[i]].retrieval_method = "vector_only"
        /\ ~GetRetrievalStats(retriever["retriever"]).is_ensemble
        /\ ~GetRetrievalStats(retriever["retriever"]).has_bm25

\* C4: every chunk retrieve returns was tagged by this very call, with
\* "hybrid" when the result came from the fused call and "vector_only"
\* when it came from the vector retriever alone.
C4_TaggedByThisQuery ==
    call.op = "retrieve" =>
        \A i \in 1..Len(result) :
            /\ result[i] \in call.written
            /\ meta[result[i]].retrieval_method =
                  IF call.path = "primary" /\ retriever["retriever"].cls = "EnsembleRetriever"
                  THEN "hybrid" ELSE "vector_only"
\* =================================================== AdvancedRetriever
\* C5: retrieve_with_context asks the ensemble retriever for 2k candidates
\* with the rewritten and expanded query, re-ranks them and returns the
\* min(k, number of candidates) best: relevance_score does not increase
\* along the list, position i carries retrieval_rank = i, and no candidate
\* left out has a strictly higher combined score than a returned chunk.
C5_OverFetchRerankBestK ==
    call.op = "retrieve_with_context" =>
        /\ call.fetch_k = 2 * call.k
        /\ call.query = ExpandedQuery(call.original, call.history)
        /\ Len(call.candidates) <= call.fetch_k
        /\ Len(result) = Min(call.k, Len(call.candidates))
        /\ Range(result) \subseteq Range(call.candidates)
        /\ \A i \in 1..Len(result) :
              /\ meta[result[i]].retrieval_rank = i
              /\ meta[result[i]].relevance_score =
                    CombinedScore(call.query, result[i], meta[result[i]].bm25_score)
              /\ i > 1 => meta[result[i - 1]].relevance_score >= meta[result[i]].relevance_score
        /\ \A c \in Range(call.candidates) \ Range(result) :
              \A i \in 1..Len(result) :
                  CombinedScore(call.query, c, meta[c].bm25_score)
                      <= meta[result[i]].relevance_score

C5_Witness ==
    /\ call.op = "retrieve_with_context"
    /\ call.history # << >>
    /\ call.query # call.original
    /\ Len(call.candidates) > call.k
    /\ Len(result) = call.k
    /\ result # Take(call.candidates, call.k)
\* ================================================== source aggregation
\* A SourceEntry of this model keeps its page numbers in page_numbers (the
\* code: entry["metadata"]["page_numbers"], missing when there is none)
\* and, for the properties, the chunks of its group in chunks.
PagesOf(S) == {PageNumberOf(c) : c \in {d \in S : PageNumberOf(d) # Absent}}

IsSortedSetOf(seq, S) ==
    /\ Range(seq) = S
    /\ \A i \in 1..(Len(seq) - 1) : seq[i] < seq[i + 1]

\* C6: all chunks of the retrieved list that share a raw_file_path are
\* folded into exactly one SourceEntry, whose page_numbers is the sorted
\* union of the page numbers of those chunks.
C6_OneEntryPerFileWithAllPages ==
    extracted =>
        \A path \in {Corpus[c].raw_file_path : c \in Range(result)} :
            LET group == {c \in Range(result) : Corpus[c].raw_file_path = path}
                entries == {i \in 1..Len(sources) : sources[i].raw_file_path = path}
            IN /\ Cardinality(entries) = 1
               /\ \A i \in entries :
                     /\ Range(sources[i].chunks) = group
                     /\ IsSortedSetOf(sources[i].page_numbers, PagesOf(group))

C6_Witness ==
    /\ extracted
    /\ \E i \in 1..Len(sources) :
          /\ Len(sources[i].chunks) >= 2
          /\ Len(sources[i].page_numbers) >= 2

ScoreOrZero(entry) == IF entry.relevance_score = Absent THEN 0 ELSE entry.relevance_score

\* C7: the ids of the returned entries are 1..N in list order and the
\* entries are in non-increasing relevance_score order, a missing score
\* counting as 0.
C7_DenseIdsInScoreOrder ==
    extracted =>
        \A i \in 1..Len(sources) :
            /\ sources[i].id = i
            /\ i > 1 => ScoreOrZero(sources[i - 1]) >= ScoreOrZero(sources[i])

\* ... reached after the final sort has moved an entry.
C7_Witness ==
    /\ extracted
    /\ Len(sources) >= 2
    /\ sources[1].citation # FormatSuperscript(1)
    /\ ScoreOrZero(sources[1]) > ScoreOrZero(sources[2])

\* C8: after any sequence of queries over the shared chunks, every entry's
\* citation is the superscript rendering of its own final id.
C8_CitationRendersFinalId ==
    extracted =>
        \A i \in 1..Len(sources) :
            sources[i].citation = FormatSuperscript(sources[i].id)

\* The label the page-number set of a group determines.
LabelOfPages(pages) ==
    IF Len(pages) = 1 THEN [kind |-> "Page", pages |-> pages]
    ELSE IF Len(pages) <= 5 THEN [kind |-> "Pages", pages |-> pages]
    ELSE [kind |-> "PagesRange", pages |-> <<pages[1], pages[Len(pages)]>>]

\* C9: page_label is "Page N" for one page, "Pages a, b, ..." for 2 to 5
\* pages and "Pages first-last" for more than 5 pages of the group.
C9_PageLabelFromPageSet ==
    extracted =>
        \A i \in 1..Len(sources) :
            Len(sources[i].page_numbers) >= 1 =>
                sources[i].page_label = LabelOfPages(sources[i].page_numbers)
\* ==================================================== confidence score
\* C10: for every answer text and every number of documents the confidence
\* score lies in [0, 1].
C10_ConfidenceInUnitInterval ==
    confidence # Absent => (0 <= confidence /\ confidence <= ConfidenceOne)

\* ... reached where the sum of the terms exceeds 1: a long answer with
\* three specificity patterns and five or more documents.
C10_Witness ==
    /\ confidence = ConfidenceOne
    /\ RawConfidence(answer, num_documents) > ConfidenceOne
    /\ TextLen(answer) >= 500
    /\ num_documents > 5

\* ---------------------------------------------------------------- C18
\* The length of the marker that starts at position i of s ([N], ^{N} or
\* ^N with N a non-empty digit string), 0 when none starts there, and the
\* position of its first digit.
MarkerDigitsAt(s, i) ==
    IF s[i] = "[" THEN i + 1
    ELSE IF i + 1 <= Len(s) /\ s[i + 1] = "{" THEN i + 2
    ELSE i + 1
MarkerLen(s, i) ==
    LET n == DigitRun(s, MarkerDigitsAt(s, i)) IN
    IF s[i] = "[" /\ n >= 1 /\ i + n + 1 <= Len(s) /\ s[i + n + 1] = "]"
    THEN n + 2
    ELSE IF s[i] = "^" /\ i + 1 <= Len(s) /\ s[i + 1] = "{" /\ n >= 1
            /\ i + n + 2 <= Len(s) /\ s[i + n + 2] = "}"
    THEN n + 3
    ELSE IF s[i] = "^" /\ DigitRun(s, i + 1) >= 1
    THEN DigitRun(s, i + 1) + 1
    ELSE 0

\* Every marker replaced by the glyphs of its number, every other
\* character kept in place.
RECURSIVE MarkersReplaced(_, _)
MarkersReplaced(s, i) ==
    IF i > Len(s) THEN << >>
    ELSE IF MarkerLen(s, i) > 0
    THEN FormatSuperscriptStr(s, MarkerDigitsAt(s, i),
                              DigitRun(s, MarkerDigitsAt(s, i)))
             \o MarkersReplaced(s, i + MarkerLen(s, i))
    ELSE <<s[i]>> \o MarkersReplaced(s, i + 1)

\* C18: replace_bracket_citations replaces every marker [N], ^{N} and ^N
\* by the superscript glyphs of N, leaves every character that is not part
\* of a marker unchanged and in place, and applied to its own output
\* returns that output.
C18_MarkersOnlyAndIdempotent ==
    citation.done =>
        /\ citation.updated = MarkersReplaced(citation.text, 1)
        /\ citation.again = citation.updated

\* The part of C18 the code keeps: the function is idempotent.
C18_Idempotent == citation.done => citation.again = citation.updated

\* ---------------------------------------------------------------- C19
\* C19: select_template_by_query_type(question, n) answers by the first
\* rule that applies: a technical keyword in the lowercased question gives
\* "technical"; else an analysis keyword gives "analysis"; else n > 3 gives
\* "synthesis"; else a factual keyword gives "source_attribution"; else
\* "base".
C19_FirstRuleApplies ==
    selection.template # "none" =>
        LET q == LowerStr(selection.question)
            n == selection.context_length
            technical == AnyKeyword(q, TechnicalKeywords)
            analysis == AnyKeyword(q, AnalysisKeywords)
            factual == AnyKeyword(q, FactualKeywords)
        IN /\ technical => selection.template = "technical"
           /\ (~technical /\ analysis) => selection.template = "analysis"
           /\ (~technical /\ ~analysis /\ n > 3) => selection.template = "synthesis"
           /\ (~technical /\ ~analysis /\ n <= 3 /\ factual)
                  => selection.template = "source_attribution"
           /\ (~technical /\ ~analysis /\ n <= 3 /\ ~factual)
                  => selection.template = "base"

\* A question with only a factual keyword and more than three documents
\* got "synthesis".
C19_Witness ==
    /\ selection.template = "synthesis"
    /\ selection.context_length > 3
    /\ AnyKeyword(LowerStr(selection.question), FactualKeywords)
    /\ ~AnyKeyword(LowerStr(selection.question), AnalysisKeywords)
    /\ ~AnyKeyword(LowerStr(selection.question), TechnicalKeywords)

\* ---------------------------------------------------------------- C11
\* C11: query takes the direct-answer shortcut exactly when the lowercased
\* question contains both "date" and "today"; the result then has
\* template_used "direct_query", no sources, num_sources 0 and confidence
\* 1.0, neither a retriever nor the language model is invoked, and
\* conversation_history and the retriever's query_history stay as they were.
C11_DirectShortcut ==
    qcall.op = "query" =>
        LET lowered == LowerStr(qcall.question)
            both == /\ Contains(lowered, <<"d", "a", "t", "e">>)
                    /\ Contains(lowered, <<"t", "o", "d", "a", "y">>)
        IN /\ (qcall.outcome = "direct") <=> both
           /\ qcall.outcome = "direct" =>
                 /\ qcall.result.template_used = "direct_query"
                 /\ qcall.result.sources = << >>
                 /\ qcall.result.num_sources = 0
                 /\ qcall.result.confidence_score = ConfidenceOne
                 /\ qcall.llm_invocations = 0
                 /\ qcall.retriever_calls = 0
                 /\ conversation_history = qcall.history_before
                 /\ query_history = << >>

\* A question with "today" before "date", in capitals and inside a word,
\* asked with chat history on an engine that has recorded a turn.
C11_Witness ==
    /\ qcall.op = "query"
    /\ qcall.question = <<"T", "O", "D", "A", "Y", " ", "u", "p", "d", "a", "t", "e">>
    /\ qcall.outcome = "direct"
    /\ qcall.chat_history # << >>
    /\ qcall.conversation_context
    /\ qcall.history_before # << >>

\* ---------------------------------------------------------------- C12
\* C12: a non-direct query invokes the language model exactly once; if that
\* call throws, query raises one LLMError whose details carry the question
\* and the underlying message, and no answer or partial result is returned.
C12_LlmInvokedOnce ==
    (qcall.op = "query" /\ qcall.outcome # "direct") =>
        /\ qcall.llm_invocations = 1
        /\ qcall.llm_raises =>
              /\ qcall.outcome = "LLMError"
              /\ qcall.error = [question |-> qcall.question, error |-> "llm"]
              /\ qcall.result = NoResult

\* The part of C12 the code keeps: the model is never invoked twice, and a
\* query whose retrieval answered invokes it once and turns its exception
\* into one LLMError without a result.
C12_OnceWhenRetrieved ==
    (qcall.op = "query" /\ qcall.outcome # "direct") =>
        /\ qcall.llm_invocations <= 1
        /\ qcall.retriever_calls = 1 =>
              /\ qcall.llm_invocations = 1
              /\ qcall.llm_raises =>
                    /\ qcall.outcome = "LLMError"
                    /\ qcall.error = [question |-> qcall.question, error |-> "llm"]
                    /\ qcall.result = NoResult

\* ---------------------------------------------------------------- C13
\* C13: a query whose template_type is not a recognized template name does
\* not fail: the prompt is built from the base template and the result's
\* template_used is "base".  (Stated for the queries whose retrieval and
\* language-model calls answered.)
C13_UnknownTemplateReportedAsBase ==
    (/\ qcall.op = "query"
     /\ qcall.template_type \notin TemplateNames \cup {"None"}
     /\ qcall.retriever_calls = 1
     /\ ~qcall.llm_raises) =>
        /\ qcall.outcome = "result"
        /\ qcall.prompt_template = "base"
        /\ qcall.result.template_used = "base"

\* The part of C13 the code keeps: the query answers and the prompt is the
\* base template's.
C13_UnknownTemplateUsesBase ==
    (/\ qcall.op = "query"
     /\ qcall.template_type \notin TemplateNames \cup {"None"}
     /\ qcall.retriever_calls = 1
     /\ ~qcall.llm_raises) =>
        /\ qcall.outcome = "result"
        /\ qcall.prompt_template = "base"

\* ---------------------------------------------------------------- C14
\* C14: with the calls to one engine serialized, after n recorded
\* interactions conversation_history holds exactly the last min(n, 50)
\* turns in the order they were recorded, and it never holds more than 50.
C14_LastFiftyTurnsInOrder ==
    LET n == engine.recorded
        held == Len(conversation_history)
    IN /\ held = (IF n < 50 THEN n ELSE 50)
       /\ held <= 50
       /\ \A j \in 1..held :
             conversation_history[j].user = TurnQuestion(n - held + j)

\* Fifty-two interactions were recorded: the list holds the third to the
\* fifty-second.
C14_Witness ==
    /\ engine.recorded = 52
    /\ Len(conversation_history) = 50
    /\ conversation_history[1].user = TurnQuestion(3)
    /\ conversation_history[50].user = TurnQuestion(52)

\* ---------------------------------------------------------------- C15
\* C15: conversation_history is modified only by a query that completes
\* successfully with conversation_context = true, and then by appending
\* exactly one turn {user: the question, assistant: the citation-formatted
\* answer, sources: the returned sources, empty when include_sources is
\* false}; a query with conversation_context = false, a direct-answer query
\* and a query that raises leave it unchanged.
C15_OnlySuccessfulContextQueryAppends ==
    qcall.op = "query" =>
        IF qcall.outcome = "result" /\ qcall.conversation_context
        THEN /\ conversation_history =
                    Append(qcall.history_before,
                           [user |-> qcall.question,
                            assistant |-> qcall.result.answer,
                            sources |-> qcall.result.sources])
             /\ qcall.result.answer \in {ReplaceBracketCitations(c) : c \in LlmContents}
             /\ ~qcall.include_sources => qcall.result.sources = << >>
        ELSE conversation_history = qcall.history_before

\* A second turn was appended by a successful query with
\* conversation_context = true and include_sources = false.
C15_Witness ==
    /\ qcall.op = "query"
    /\ qcall.outcome = "result"
    /\ qcall.conversation_context
    /\ ~qcall.include_sources
    /\ Len(qcall.history_before) = 1
    /\ Len(conversation_history) = 2
    /\ conversation_history[2].sources = << >>
    /\ conversation_history[2].assistant = <<"2", "0", "2", "4", " ", "sup1">>
    /\ conversation_history[1].sources # << >>

\* ---------------------------------------------------------------- C16
\* C16: the turns recorded in the engine's conversation history are used by
\* later query expansion: after an exchange has been recorded, the
\* retrieval query of a subsequent context-enabled query on the same engine
\* is expanded with the recorded turns.
C16_RecordedTurnsExpandQuery ==
    (/\ qcall.op = "query"
     /\ qcall.retriever_calls = 1
     /\ qcall.conversation_context
     /\ qcall.history_before # << >>) =>
        /\ qcall.retrieval.method = "retrieve_with_context"
        /\ \E i \in 1..Len(qcall.retrieval.history) :
              \E j \in 1..Len(qcall.history_before) :
                  \/ qcall.retrieval.history[i].content = qcall.history_before[j].user
                  \/ qcall.retrieval.history[i].content = qcall.history_before[j].assistant

\* What the code does instead: the conversation handed to the retriever is
\* the caller's chat_history argument, prepared, and nothing else.
C16_OnlyChatHistoryExpands ==
    (qcall.op = "query" /\ qcall.retriever_calls = 1) =>
        qcall.retrieval.history =
            (IF qcall.retrieval.method = "retrieve_with_context"
             THEN PrepareHistory(qcall.chat_history) ELSE << >>)

\* ---------------------------------------------------------------- C17
\* C17: for every non-direct query the engine retrieves through an ensemble
\* retriever whose weights and k are the per-call retriever_overrides when
\* given and otherwise the engine's configured values; a query with
\* overrides completes like any other and leaves the engine's default
\* retriever and its configuration unchanged.
C17_EnsembleWithOverrides ==
    (qcall.op = "query" /\ qcall.outcome # "direct") =>
        /\ qcall.retriever_calls = 1
        /\ qcall.retrieval.cls \in {"HybridRetriever", "AdvancedRetriever"}
        /\ qcall.retrieval.semantic_weight =
              (IF qcall.overrides.semantic_weight # Absent
               THEN qcall.overrides.semantic_weight ELSE SemanticWeight)
        /\ qcall.overrides.k # Absent => qcall.retrieval.k = qcall.overrides.k
        /\ ~qcall.llm_raises => qcall.outcome = "result"
        /\ engine.retriever = EnhancedRAGChainInit(engine.binding).retriever
        /\ engine.advanced_retriever = EnhancedRAGChainInit(engine.binding).advanced_retriever

\* The part of C17 the code keeps: no query rebinds the engine's
\* retrievers, and an override of k alone reaches the retrieval call.
C17_DefaultRetrieverKept ==
    /\ engine.retriever = EnhancedRAGChainInit(engine.binding).retriever
    /\ engine.advanced_retriever = EnhancedRAGChainInit(engine.binding).advanced_retriever
    /\ (qcall.retriever_calls = 1 /\ qcall.overrides.k # Absent)
          => qcall.retrieval.k = qcall.overrides.k

\* ---------------------------------------------------------------- C20
\* The largest and the smallest value of a metadata field over a group's
\* chunks, Absent when no chunk has one.
GroupValues(chunks, field) ==
    {meta[chunks[i]][field] : i \in 1..Len(chunks)} \ {Absent}
GroupMax(chunks, field) ==
    IF GroupValues(chunks, field) = {} THEN Absent
    ELSE CHOOSE v \in GroupValues(chunks, field) :
            \A w \in GroupValues(chunks, field) : w <= v
GroupMin(chunks, field) ==
    IF GroupValues(chunks, field) = {} THEN Absent
    ELSE CHOOSE v \in GroupValues(chunks, field) :
            \A w \in GroupValues(chunks, field) : v <= w

C20_ScoresAreGroupMaxima ==
    extracted => \A i \in 1..Len(sources) :
        /\ sources[i].relevance_score = GroupMax(sources[i].chunks, "relevance_score")
        /\ sources[i].bm25_score = GroupMax(sources[i].chunks, "bm25_score")
C20_RankIsGroupMinimum ==
    extracted => \A i \in 1..Len(sources) :
        sources[i].retrieval_rank = GroupMin(sources[i].chunks, "retrieval_rank")
C20_ChunkCountReported ==
    extracted => \A i \in 1..Len(sources) :
        sources[i].chunk_count = Len(sources[i].chunks)
C20_ContentOfBestBm25 ==
    extracted => \A i \in 1..Len(sources) :
        LET chunks == sources[i].chunks IN
        IF GroupValues(chunks, "bm25_score") = {}
        THEN sources[i].content = chunks[1]
        ELSE meta[sources[i].content].bm25_score = GroupMax(chunks, "bm25_score")

\* C20: each source entry reports the aggregates of its whole group of
\* chunks: relevance_score and bm25_score are the maxima over the group,
\* retrieval_rank is the minimum, chunk_count is the number of chunks, and
\* content is that of the chunk with the highest bm25_score (the first
\* chunk when none has one).
C20_GroupAggregates ==
    /\ C20_ScoresAreGroupMaxima
    /\ C20_RankIsGroupMinimum
    /\ C20_ChunkCountReported
    /\ C20_ContentOfBestBm25

\* ---------------------------------------------------------------- C21
\* C21: _rerank_documents is deterministic and stable: candidates with
\* equal combined score keep their relative input order, and re-ranking
\* the output of a re-rank with the same query returns the same order, the
\* same relevance_score values and the same retrieval_rank values.
C21_StableAndIdempotent ==
    /\ rerank.stage >= 1 =>
          \A i, j \in 1..Len(rerank.candidates) :
              (/\ i < j
               /\ CombinedScore(rerank.query, rerank.candidates[i],
                                meta[rerank.candidates[i]].bm25_score)
                  = CombinedScore(rerank.query, rerank.candidates[j],
                                  meta[rerank.candidates[j]].bm25_score))
              => IndexIn(rerank.first, rerank.candidates[i])
                    < IndexIn(rerank.first, rerank.candidates[j])
    /\ rerank.stage = 2 =>
          /\ rerank.second = rerank.first
          /\ \A c \in Chunks :
                /\ meta[c].relevance_score = rerank.first_meta[c].relevance_score
                /\ meta[c].retrieval_rank = rerank.first_meta[c].retrieval_rank

\* A list that the first re-rank reordered, with two candidates of equal
\* score, re-ranked twice.
C21_Witness ==
    /\ rerank.stage = 2
    /\ rerank.first # rerank.candidates
    /\ \E i, j \in 1..Len(rerank.candidates) :
          /\ i < j
          /\ meta[rerank.candidates[i]].relevance_score
                = meta[rerank.candidates[j]].relevance_score

\* ---------------------------------------------------------------- C22
\* C22: after any sequence of n retrieve_with_context calls, query_history
\* holds exactly the original (un-rewritten, un-expanded) queries of the
\* last min(n, query_expansion_history_size) calls in call order, so its
\* length never exceeds that size.
C22_LastOriginalQueries ==
    LET size == retriever["advanced_retriever"].history_size
        n == Len(context_calls)
    IN /\ Len(query_history) <= size
       /\ query_history = SubSeq(context_calls, Max(1, n - size + 1), n)

\* More calls than the buffer holds, the kept queries differing from each
\* other and the last one rewritten and expanded for the indexes.
C22_Witness ==
    /\ Len(context_calls) > retriever["advanced_retriever"].history_size
    /\ Len(query_history) = retriever["advanced_retriever"].history_size
    /\ query_history[1] # query_history[Len(query_history)]
    /\ query_history[Len(query_history)] = <<"What", "is", "rag">>
    /\ call.query # call.original
    /\ call.history # << >>

\* ---------------------------------------------------------------- C23
\* The number of leading blocks that fit the budget one after the other.
RECURSIVE FittingPrefix(_, _, _)
FittingPrefix(blocks, i, budget) ==
    IF i > Len(blocks) \/ blocks[i] > budget THEN 0
    ELSE 1 + FittingPrefix(blocks, i + 1, budget - blocks[i])

\* C23: create_context_string includes blocks for a prefix of the ranked
\* list: every block that fits the remaining budget is included whole and
\* in rank order; the first block that would exceed the budget is included
\* truncated with an ellipsis marker; no chunk after it contributes.
C23_WholePrefixThenTruncatedBlock ==
    context.done =>
        LET n == FittingPrefix(context.blocks, 1, context.max_length) IN
        /\ \A i \in 1..n :
              /\ i <= Len(context.parts)
              /\ context.parts[i] =
                    [doc |-> i, taken |-> context.blocks[i], truncated |-> FALSE]
        /\ IF n < Len(context.blocks)
           THEN /\ Len(context.parts) = n + 1
                /\ context.parts[n + 1].doc = n + 1
                /\ context.parts[n + 1].truncated
           ELSE Len(context.parts) = n

\* The part of C23 the code keeps: the fitting blocks whole and in order,
\* then at most one truncated part, of the next block, and nothing after.
C23_WholePrefixThenAtMostOne ==
    context.done =>
        LET n == FittingPrefix(context.blocks, 1, context.max_length) IN
        /\ Len(context.parts) \in {n, n + 1}
        /\ \A i \in 1..n :
              context.parts[i] =
                  [doc |-> i, taken |-> context.blocks[i], truncated |-> FALSE]
        /\ Len(context.parts) = n + 1 =>
              /\ n < Len(context.blocks)
              /\ context.parts[n + 1].doc = n + 1
              /\ context.parts[n + 1].truncated

\* ---------------------------------------------------------------- C24
\* C24: for every list of chunks and every max_length, the context string
\* is at most max_length characters long, the truncated last block and its
\* ellipsis marker included.
C24_WithinMaxLength == context.done => context.length <= context.max_length

\* Two whole blocks and a truncated third.
C24_Witness ==
    /\ context.done
    /\ Len(context.parts) = 3
    /\ context.parts[3].truncated
    /\ context.parts[3].taken < context.blocks[3]
    /\ context.length > context.blocks[1] + context.blocks[2]

\* ---------------------------------------------------------------- C25
BothRecorded ==
    \A t \in Threads : \E i \in 1..Len(conversation_history) :
        conversation_history[i] = ThreadEntry(t)
BothDone == \A t \in Threads : recording.pc[t] = "done"

\* C25: one engine is not safe for concurrent queries: two unserialized
\* queries can interleave their _record_interaction steps (append, then
\* replace the list by its last 50 entries) so that the history does not
\* contain both turns (C25_Witness is such a state), although no such loss
\* can occur when the calls are serialized.
C25_NoLossWhenSerialized ==
    (BothDone /\ ~recording.overlapped) =>
        /\ BothRecorded
        /\ Len(conversation_history) <= HistoryCap

\* Both calls have returned, they overlapped, and one turn is missing.
C25_Witness ==
    /\ BothDone
    /\ recording.overlapped
    /\ ~BothRecorded

\* ---------------------------------------------------------------- C26
\* C26: once reset_chain() has returned, every get_enhanced_chain() call
\* that starts afterwards returns a chain built from documents loaded
\* after that reset, so from no fewer documents than were on disk at the
\* reset, also when another thread is inside _ensure_chain while the reset
\* runs.
C26_ChainLoadedAfterReset ==
    \A t \in Threads :
        (service.callers[t].pc = "return"
            /\ service.callers[t].returned # NoChain)
        => service.callers[t].returned.documents >= service.callers[t].started

\* ---------------------------------------------------------------- C27
\* The task submitted last for a job id, 0 if there is none.
RECURSIVE LatestTask(_, _)
LatestTask(job_id, i) ==
    IF i = 0 THEN 0
    ELSE IF queue.tasks[i].job = job_id THEN i
    ELSE LatestTask(job_id, i - 1)

\* C27: while the most recently submitted task for a job id is running
\* (not finished, no cancellation requested), it is the task the queue
\* tracks for that id (get returns it), in particular after a second
\* submit with the same id cancelled a running predecessor.
C27_LatestRunningTaskTracked ==
    \A job_id \in JobIds :
        \E latest \in {LatestTask(job_id, Len(queue.tasks))} :
            (latest # 0 /\ queue.tasks[latest].state = "running")
                => Get(queue, job_id) = latest

\* ---------------------------------------------------------------- C28
\* C28: every ingestion job started by schedule_job eventually reaches a
\* terminal status (completed, skipped or failed) and is never left in
\* status processing, also when cancel_job is called while it runs.
C28_ProcessingJobTerminates ==
    \A j \in JobIds :
        (ingestion[j].status = "processing")
            ~> (ingestion[j].status \in TerminalStatuses)

\* ---------------------------------------------------------------- C29
\* The three ways the spec lets process_job end.
EndedCompleted(job) ==
    /\ job.statuses = <<"processing", "completed">>
    /\ job.chunks > 0
    /\ job.chunks_count = job.chunks
    /\ job.result = [chunks_processed |-> job.chunks, status |-> "completed"]
    /\ job.ended = "returned"
EndedSkipped(job) ==
    /\ job.statuses = <<"processing", "skipped">>
    /\ job.result = [chunks_processed |-> 0, status |-> "skipped"]
    /\ job.ended = "returned"
EndedFailed(job) ==
    /\ job.statuses = <<"processing", "failed">>
    /\ job.exc # "none"
    /\ job.error = job.exc
    /\ job.raised = job.exc
    /\ ~job.file
    /\ job.ended = "raised"
EndsAsSpecified(job) ==
    /\ EndedCompleted(job) \/ EndedSkipped(job) \/ EndedFailed(job)
    /\ job.on_success_calls > 0 => EndedCompleted(job)

\* C29: process_job on an existing job first sets status processing and
\* then ends in exactly one of three ways: completed with
\* details.chunks_count = n and result {chunks_processed: n, status:
\* completed}; skipped with result {chunks_processed: 0, status: skipped};
\* or, on any exception, failed with error = the exception message, the
\* staged file removed and the exception re-raised; on_success is invoked
\* only in the completed case.
C29_EndsInOneOfThreeWays ==
    \A j \in JobIds :
        (ingestion[j].exists
            /\ ingestion[j].ended \in {"returned", "raised", "cancelled"})
        => EndsAsSpecified(ingestion[j])

\* What does hold: a run of process_job that no cancellation ended ends as
\* the spec says.
C29_EndsAsSpecifiedUnlessCancelled ==
    \A j \in JobIds :
        (ingestion[j].exists /\ ingestion[j].ended \in {"returned", "raised"})
        => EndsAsSpecified(ingestion[j])

\* ---------------------------------------------------------------- C30
\* C30: the outcome of a query depends only on its own inputs and the
\* corpus, not on the queries answered before it on the same engine: the
\* same (question, chat_history, k) yields the same chunk order, the same
\* relevance_scores and the same source order and ids on a used engine as
\* on a fresh one, although retrieval writes into chunk metadata in place.
C30_OutcomeIndependentOfEarlierQueries ==
    \A question \in Queries, history_lines \in Histories, k \in 0..MaxK :
        QueryOutcome(meta, retriever, question, history_lines, k)
            = QueryOutcome(FreshMeta, retriever, question, history_lines, k)
====
